---- MODULE Spec2Model ----
(***************************************************************************)
(* A model of the EMI calculator: the calculation engine                   *)
(* (EMICalculationService), the decimal arithmetic it is written in        *)
(* (decimal.js, precision 28, ROUND_HALF_UP), the conversion of its        *)
(* results to native numbers (IEEE-754 doubles), and the callers of the    *)
(* engine: the hook useEMICalculator and the component EMICalculator,      *)
(* which on every render asks for the four calculations of the form.       *)
(*                                                                         *)
(* State.  The service keeps the static table of tax brackets; a caller    *)
(* takes its steps in order and each step is done at once.  The brackets   *)
(* of the table are objects: an array got from getTaxBrackets holds        *)
(* references to them.  The loan presets (LoanService) live in one item of *)
(* the browser's store, and the mounted calculator keeps the form, the     *)
(* presets loaded and the scenario in the state of the hook.               *)
(*                                                                         *)
(* Numbers.  A natural number is a little-endian sequence of limbs in      *)
(* base 10^4 without leading zero limbs (<<>> is 0).  A decimal is a       *)
(* record [t, s, c, e]: t is "fin", "inf" or "nan", s the sign (1 or -1),  *)
(* and for a finite value c the coefficient (a natural without trailing    *)
(* decimal zeros) and e the exponent: the value is s * c * 10^e.  A native *)
(* number (a double) is written as the decimal of its shortest round-trip  *)
(* representation, which is what Number.prototype.toString prints and what *)
(* `new Decimal(number)` reads.                                            *)
(***************************************************************************)
EXTENDS Integers, Sequences, FiniteSets, TLC

VARIABLES
  taxBrackets,  \* the static table EMICalculationService.taxBrackets
  calls,        \* the steps of a caller (calls on the service), in order
  returns,      \* the values returned so far: returns[i] answers calls[i]
  held,         \* the arrays a caller has got from getTaxBrackets
  localStorage, \* the item of the browser's store under the key 'loanTypes'
  hook,         \* the state of the hook useEMICalculator of the mounted calculator
  editor        \* the state of the mounted component EditLoanTypes

RECURSIVE Call(_, _)

Base == 10 * 1000

Max(a, b) == IF a >= b THEN a ELSE b
Min(a, b) == IF a <= b THEN a ELSE b

RECURSIVE IntPow10(_)
IntPow10(k) == IF k = 0 THEN 1 ELSE 10 * IntPow10(k - 1)

(***************************************************************************)
(* Natural numbers of any size.  Sums, differences and shifts are written  *)
(* limb by limb with the carries in closed form, so that the depth of      *)
(* evaluation does not grow with the length of the numbers.                *)
(***************************************************************************)
Maximum(S) == CHOOSE x \in S : \A y \in S : y <= x
Minimum(S) == CHOOSE x \in S : \A y \in S : x <= y

\* the function f on 1..n as a sequence, its elements computed once
Tup(f, n) == SubSeq(f, 1, n)

Zeros(n) == Tup([i \in 1..n |-> 0], n)

Limb(a, i) == IF i >= 1 /\ i <= Len(a) THEN a[i] ELSE 0

\* a without its leading zero limbs
NatNorm(a) ==
  IF a = <<>> \/ a[Len(a)] # 0 THEN a
  ELSE LET nz == {i \in 1..Len(a) : a[i] # 0}
       IN  IF nz = {} THEN <<>> ELSE SubSeq(a, 1, Maximum(nz))

RECURSIVE NatOfInt(_)
NatOfInt(n) == IF n = 0 THEN <<>> ELSE <<n % Base>> \o NatOfInt(n \div Base)

RECURSIVE NatToInt(_)
NatToInt(a) == IF a = <<>> THEN 0 ELSE a[1] + Base * NatToInt(Tail(a))

\* -1, 0 or 1 as a < b, a = b, a > b
NatCmp(a, b) ==
  IF Len(a) > Len(b) THEN 1
  ELSE IF Len(a) < Len(b) THEN -1
  ELSE IF a = <<>> THEN 0
  ELSE IF a[Len(a)] # b[Len(a)] THEN (IF a[Len(a)] > b[Len(a)] THEN 1 ELSE -1)
  ELSE LET df == {i \in 1..Len(a) : a[i] # b[i]}
           k  == Maximum(df)
       IN  IF df = {} THEN 0 ELSE IF a[k] > b[k] THEN 1 ELSE -1

NatAdd(a, b) ==
  LET n     == Max(Len(a), Len(b))
      s     == Tup([i \in 1..n |-> Limb(a, i) + Limb(b, i)], n)
      \* the carry into limb i: a limb below overflows and all between are full
      cy(i) == IF i = 1 THEN 0
               ELSE IF s[i - 1] >= Base THEN 1
               ELSE IF s[i - 1] < Base - 1 THEN 0
               ELSE IF \E j \in 1..(i - 2) :
                         s[j] >= Base /\ \A k \in (j + 1)..(i - 1) : s[k] = Base - 1
               THEN 1 ELSE 0
  IN  NatNorm(Tup([i \in 1..(n + 1) |-> IF i <= n THEN (s[i] + cy(i)) % Base ELSE cy(i)],
                  n + 1))

\* a - b for a >= b
NatSub(a, b) ==
  LET d     == Tup([i \in 1..Len(a) |-> a[i] - Limb(b, i)], Len(a))
      bw(i) == IF i = 1 THEN 0
               ELSE IF d[i - 1] < 0 THEN 1
               ELSE IF d[i - 1] > 0 THEN 0
               ELSE IF \E j \in 1..(i - 2) :
                         d[j] < 0 /\ \A k \in (j + 1)..(i - 1) : d[k] = 0
               THEN 1 ELSE 0
  IN  NatNorm(Tup([i \in 1..Len(a) |-> (d[i] - bw(i) + Base) % Base], Len(a)))

\* a * k for 0 <= k <= Base
NatMulSmall(a, k) ==
  IF k = 0 \/ a = <<>> THEN <<>>
  ELSE Call("NatAdd", <<Tup([i \in 1..Len(a) |-> (a[i] * k) % Base], Len(a)),
              <<0>> \o Tup([i \in 1..Len(a) |-> (a[i] * k) \div Base], Len(a))>>)

RECURSIVE NatMulRows(_, _, _, _)
\* the sum of a * b[j] * Base^(j - 1) over j in lo..hi, by halves
NatMulRows(a, b, lo, hi) ==
  IF lo = hi
  THEN LET row == Call("NatMulSmall", <<a, b[lo]>>)
       IN  IF row = <<>> THEN row ELSE Zeros(lo - 1) \o row
  ELSE LET mid == (lo + hi) \div 2
       IN  Call("NatAdd", <<NatMulRows(a, b, lo, mid), NatMulRows(a, b, mid + 1, hi)>>)

RECURSIVE NatMulColumn(_, _, _, _, _)
\* the sum of a[i] * b[k + 1 - i] over i in lo..hi, by halves
NatMulColumn(a, b, k, lo, hi) ==
  IF lo = hi THEN a[lo] * b[k + 1 - lo]
  ELSE LET mid == (lo + hi) \div 2
       IN  NatMulColumn(a, b, k, lo, mid) + NatMulColumn(a, b, k, mid + 1, hi)

\* the product by columns, for factors short enough that a column sum is
\* below 2^31: each column sum is three limbs
NatMulColumns(a, b) ==
  LET n   == Len(a) + Len(b) - 1
      col == Tup([k \in 1..n |->
                   Call("NatMulColumn", <<a, b, k, Max(1, k + 1 - Len(b)), Min(k, Len(a))>>)], n)
  IN  Call("NatAdd", <<Call("NatAdd", <<Tup([k \in 1..n |-> col[k] % Base], n),
                    <<0>> \o Tup([k \in 1..n |-> (col[k] \div Base) % Base], n)>>),
             <<0, 0>> \o Tup([k \in 1..n |-> col[k] \div (Base * Base)], n)>>)

MaxColumn == 2 * 10

NatMul(a, b) ==
  IF a = <<>> \/ b = <<>> THEN <<>>
  ELSE IF Min(Len(a), Len(b)) <= MaxColumn THEN Call("NatMulColumns", <<a, b>>)
  ELSE IF Len(a) >= Len(b) THEN Call("NatMulRows", <<a, b, 1, Len(b)>>)
  ELSE Call("NatMulRows", <<b, a, 1, Len(a)>>)

NatIsOdd(a) == a # <<>> /\ a[1] % 2 = 1

\* a * 10^k
NatMulPow10(a, k) ==
  IF a = <<>> THEN a
  ELSE IF k % 4 = 0 THEN Zeros(k \div 4) \o a
  ELSE LET p == IntPow10(k % 4)
           q == IntPow10(4 - (k % 4))
       IN  Zeros(k \div 4) \o
           NatNorm(Tup([i \in 1..(Len(a) + 1) |->
                          (Limb(a, i) % q) * p + Limb(a, i - 1) \div q], Len(a) + 1))

\* floor(a / 10^k)
NatDivPow10(a, k) ==
  IF k \div 4 >= Len(a) THEN <<>>
  ELSE LET h == SubSeq(a, k \div 4 + 1, Len(a))
           p == IntPow10(k % 4)
           q == IntPow10(4 - (k % 4))
       IN  IF k % 4 = 0 THEN h
           ELSE NatNorm(Tup([i \in 1..Len(h) |->
                               h[i] \div p + (Limb(h, i + 1) % p) * q], Len(h)))

\* the decimal digit of a at position k (position 0 is the units digit)
NatDigitAt(a, k) ==
  (Limb(a, k \div 4 + 1) \div IntPow10(k % 4)) % 10

DigitsOfLimb(x) ==
  IF x >= 1000 THEN 4 ELSE IF x >= 100 THEN 3 ELSE IF x >= 10 THEN 2
  ELSE IF x >= 1 THEN 1 ELSE 0

\* the number of decimal digits of a (0 for 0)
NatDigits(a) ==
  IF a = <<>> THEN 0 ELSE 4 * (Len(a) - 1) + DigitsOfLimb(a[Len(a)])

\* the number of trailing decimal zeros of a > 0
NatTrailingZeros(a) ==
  LET i == Minimum({j \in 1..Len(a) : a[j] # 0})
      x == a[i]
  IN  4 * (i - 1) + (IF x % 10 # 0 THEN 0 ELSE IF x % 100 # 0 THEN 1
                     ELSE IF x % 1000 # 0 THEN 2 ELSE 3)

RECURSIVE NatQuotLimb(_, _, _, _)
\* the largest q in lo..hi with q * d <= r (lo is one such q)
NatQuotLimb(r, d, lo, hi) ==
  IF lo >= hi THEN lo
  ELSE LET mid == (lo + hi + 1) \div 2
       IN  IF Call("NatCmp", <<Call("NatMulSmall", <<d, mid>>), r>>) <= 0
           THEN NatQuotLimb(r, d, mid, hi)
           ELSE NatQuotLimb(r, d, lo, mid - 1)

RECURSIVE NatDivModAt(_, _, _, _, _, _, _)
\* long division from limb i of n down, with the quotient q and the
\* remainder r of the limbs above i.  d1 is d cut by sh digits to at most
\* five: the quotient limb lies between the quotients of the remainder cut
\* alike by d1 + 1 and by d1.  Each step settles its quotient limb and
\* remainder before the next begins.
NatDivModAt(n, d, d1, sh, i, q, r) ==
  IF i = 0 THEN <<NatNorm(q), r>>
  ELSE LET r1 == NatNorm(<<n[i]>> \o r)
           t1 == NatToInt(Call("NatDivPow10", <<r1, sh>>))
           ql == Call("NatQuotLimb", <<r1, d, t1 \div (d1 + 1), Min(Base - 1, (t1 + 1) \div d1)>>)
           r2 == IF ql = 0 THEN r1 ELSE Call("NatSub", <<r1, Call("NatMulSmall", <<d, ql>>)>>)
           q2 == <<ql>> \o q
       IN  IF Len(q2) > 0 /\ Len(r2) >= 0
           THEN NatDivModAt(n, d, d1, sh, i - 1, q2, r2)
           ELSE <<q2, r2>>

\* <<floor(n / d), n mod d>> for d > 0: the limbs of n above the length of d
\* are below d and start as the remainder
NatDivMod(n, d) ==
  IF Len(n) < Len(d) THEN <<<<>>, n>>
  ELSE LET sh == Max(NatDigits(d) - 5, 0)
       IN  Call("NatDivModAt", <<n, d, NatToInt(Call("NatDivPow10", <<d, sh>>)), sh,
                       Len(n) - Len(d) + 1, <<>>,
                       SubSeq(n, Len(n) - Len(d) + 2, Len(n))>>)

RECURSIVE NatPow(_, _)
\* a^k by squaring
NatPow(a, k) ==
  IF k = 0 THEN <<1>>
  ELSE IF k = 1 THEN a
  ELSE LET h == NatPow(a, k \div 2)
           s == Call("NatMul", <<h, h>>)
       IN  IF k % 2 = 1 THEN Call("NatMul", <<s, a>>) ELSE s

\* b^k for a small integer b whose j-th power is below 2^31: the powers up
\* to the j-th are machine integers
NatPowSmall(b, j, k) ==
  Call("NatMul", <<NatOfInt(b ^ (k % j)), Call("NatPow", <<NatOfInt(b ^ j), k \div j>>)>>)

(***************************************************************************)
(* Decimals: decimal.js values under the configuration of the service      *)
(***************************************************************************)
Precision == 28

DNaN == [t |-> "nan", s |-> 1, c |-> <<>>, e |-> 0]
DInf(s) == [t |-> "inf", s |-> s, c |-> <<>>, e |-> 0]
DZero(s) == [t |-> "fin", s |-> s, c |-> <<>>, e |-> 0]

\* the finite decimal s * c * 10^e in its canonical form
DFin(s, c, e) ==
  IF c = <<>> THEN DZero(s)
  ELSE LET z == Call("NatTrailingZeros", <<c>>)
       IN  [t |-> "fin", s |-> s, c |-> Call("NatDivPow10", <<c, z>>), e |-> e + z]

RECURSIVE Lit(_, _)
\* the decimal c * 10^e for a small integer c > 0
Lit(c, e) ==
  IF c % 10 = 0 THEN Lit(c \div 10, e + 1)
  ELSE [t |-> "fin", s |-> 1, c |-> NatOfInt(c), e |-> e]

\* the decimal of a small integer n
DInt(n) ==
  IF n = 0 THEN DZero(1)
  ELSE IF n < 0 THEN [Lit(-n, 0) EXCEPT !.s = -1]
  ELSE Lit(n, 0)

IsNaN(x) == x.t = "nan"
IsInf(x) == x.t = "inf"
IsFin(x) == x.t = "fin"
DecIsZero(x) == x.t = "fin" /\ x.c = <<>>
DecNeg(x) == IF IsNaN(x) THEN x ELSE [x EXCEPT !.s = -x.s]

\* s * c * 10^e rounded half up (ties away from zero) to p significant digits
DRound(s, c, e, p) ==
  LET n == NatDigits(c)
  IN  IF n <= p THEN Call("DFin", <<s, c, e>>)
      ELSE LET k == n - p
               q == Call("NatDivPow10", <<c, k>>)
           IN  Call("DFin", <<s, IF NatDigitAt(c, k - 1) >= 5 THEN Call("NatAdd", <<q,
                 <<1>>>>) ELSE q, e + k>>)

\* s * c * 10^e rounded to the nearest of p significant digits, ties to even
DRoundEven(s, c, e, p) ==
  LET n == NatDigits(c)
  IN  IF n <= p THEN Call("DFin", <<s, c, e>>)
      ELSE LET k   == n - p
               q   == Call("NatDivPow10", <<c, k>>)
               rem == Call("NatSub", <<c, Call("NatMulPow10", <<q, k>>)>>)
               o   == Call("NatCmp", <<Call("NatMulSmall", <<rem, 2>>), Call("NatMulPow10",
                        <<<<1>>, k>>)>>)
               up  == o > 0 \/ (o = 0 /\ NatIsOdd(q))
           IN  Call("DFin", <<s, IF up THEN Call("NatAdd", <<q, <<1>>>>) ELSE q, e + k>>)

\* s * c * 10^e cut (towards zero) to p significant digits
DTrunc(s, c, e, p) ==
  LET n == NatDigits(c)
  IN  IF n <= p THEN Call("DFin", <<s, c, e>>) ELSE Call("DFin", <<s, Call("NatDivPow10", <<c,
                       n - p>>), e + (n - p)>>)

\* the order of the magnitudes of two finite decimals: -1, 0 or 1
MagCmp(x, y) ==
  IF x.c = <<>> \/ y.c = <<>>
  THEN (IF x.c = y.c THEN 0 ELSE IF x.c = <<>> THEN -1 ELSE 1)
  ELSE LET ax == NatDigits(x.c) + x.e
           ay == NatDigits(y.c) + y.e
       IN  IF ax > ay THEN 1
           ELSE IF ax < ay THEN -1
           ELSE LET e == Min(x.e, y.e)
                IN  Call("NatCmp", <<Call("NatMulPow10", <<x.c, x.e - e>>), Call("NatMulPow10",
                      <<y.c, y.e - e>>)>>)

\* the order of two decimals that are not NaN: -1, 0 or 1 (-0 and 0 are equal)
DecCmp(x, y) ==
  IF DecIsZero(x) /\ DecIsZero(y) THEN 0
  ELSE LET sx == IF DecIsZero(x) THEN 0 ELSE x.s
           sy == IF DecIsZero(y) THEN 0 ELSE y.s
       IN  IF sx # sy THEN (IF sx > sy THEN 1 ELSE -1)
           ELSE IF IsInf(x) \/ IsInf(y)
           THEN (IF IsInf(x) /\ IsInf(y) THEN 0
                 ELSE IF IsInf(x) THEN sx ELSE -sx)
           ELSE sx * Call("MagCmp", <<x, y>>)

DecGt(x, y) == ~IsNaN(x) /\ ~IsNaN(y) /\ Call("DecCmp", <<x, y>>) > 0
DecLt(x, y) == ~IsNaN(x) /\ ~IsNaN(y) /\ Call("DecCmp", <<x, y>>) < 0
DecGte(x, y) == ~IsNaN(x) /\ ~IsNaN(y) /\ Call("DecCmp", <<x, y>>) >= 0
DecLte(x, y) == ~IsNaN(x) /\ ~IsNaN(y) /\ Call("DecCmp", <<x, y>>) <= 0
DecEq(x, y) == ~IsNaN(x) /\ ~IsNaN(y) /\ Call("DecCmp", <<x, y>>) = 0

\* Decimal.min of two values
DecMin(x, y) ==
  IF IsNaN(x) \/ IsNaN(y) THEN DNaN ELSE IF Call("DecCmp", <<y, x>>) < 0 THEN y ELSE x

\* the exact sum of two finite decimals, rounded to p digits
DecPlusFin(x, y, p) ==
  IF y.c = <<>> THEN (IF x.c = <<>> /\ x.s # y.s THEN DZero(1) ELSE x)
  ELSE IF x.c = <<>> THEN y
  ELSE LET e  == Min(x.e, y.e)
           cx == Call("NatMulPow10", <<x.c, x.e - e>>)
           cy == Call("NatMulPow10", <<y.c, y.e - e>>)
       IN  IF x.s = y.s THEN Call("DRound", <<x.s, Call("NatAdd", <<cx, cy>>), e, p>>)
           ELSE LET o == Call("NatCmp", <<cx, cy>>)
                IN  IF o = 0 THEN DZero(1)
                    ELSE IF o > 0 THEN Call("DRound", <<x.s, Call("NatSub", <<cx, cy>>), e, p>>)
                    ELSE Call("DRound", <<y.s, Call("NatSub", <<cy, cx>>), e, p>>)

DecPlus(x, y) ==
  IF IsNaN(x) \/ IsNaN(y) THEN DNaN
  ELSE IF IsInf(x) /\ IsInf(y) THEN (IF x.s = y.s THEN x ELSE DNaN)
  ELSE IF IsInf(x) THEN x
  ELSE IF IsInf(y) THEN y
  ELSE Call("DecPlusFin", <<x, y, Precision>>)

DecMinus(x, y) == Call("DecPlus", <<x, DecNeg(y)>>)

DecMulFin(x, y, p) == Call("DRound", <<x.s * y.s, Call("NatMul", <<x.c, y.c>>), x.e + y.e, p>>)

DecMul(x, y) ==
  IF IsNaN(x) \/ IsNaN(y) THEN DNaN
  ELSE IF IsInf(x) \/ IsInf(y)
  THEN (IF DecIsZero(x) \/ DecIsZero(y) THEN DNaN ELSE DInf(x.s * y.s))
  ELSE Call("DecMulFin", <<x, y, Precision>>)

\* the quotient of two finite decimals, y # 0, rounded to p digits
DecDivFin(x, y, p) ==
  LET shift == Max(0, p + 1 + NatDigits(y.c) - NatDigits(x.c))
      q     == Call("NatDivMod", <<Call("NatMulPow10", <<x.c, shift>>), y.c>>)[1]
  IN  Call("DRound", <<x.s * y.s, q, x.e - y.e - shift, p>>)

DecDiv(x, y) ==
  IF IsNaN(x) \/ IsNaN(y) THEN DNaN
  ELSE IF IsInf(x) /\ IsInf(y) THEN DNaN
  ELSE IF DecIsZero(x) /\ DecIsZero(y) THEN DNaN
  ELSE IF DecIsZero(x) \/ IsInf(y) THEN DZero(x.s * y.s)
  ELSE IF DecIsZero(y) \/ IsInf(x) THEN DInf(x.s * y.s)
  ELSE Call("DecDivFin", <<x, y, Precision>>)

(***************************************************************************)
(* Native numbers: IEEE-754 doubles, each written as the decimal of its    *)
(* shortest round-trip representation                                      *)
(***************************************************************************)
Pow2(k) == Call("NatPowSmall", <<2, 30, k>>)
Pow5(k) == Call("NatPowSmall", <<5, 13, k>>)

MantissaBits == 53
MinBinExp == -1074
MaxBinExp == 971

\* |x| / 2^q as a fraction <<numerator, denominator>>, x finite and not 0
Scaled(x, q) ==
  <<Call("NatMul", <<Call("NatMul", <<x.c, Call("Pow5", <<Max(x.e, 0)>>)>>), Call("Pow2",
      <<Max(x.e - q, 0)>>)>>),
    Call("NatMul", <<Call("Pow5", <<Max(-x.e, 0)>>), Call("Pow2", <<Max(q - x.e, 0)>>)>>)>>

RECURSIVE BitsAbove(_, _)
\* how many bits the natural n has beyond MantissaBits, counted from k
BitsAbove(n, k) ==
  IF Call("NatCmp", <<n, Call("Pow2", <<MantissaBits + k>>)>>) < 0 THEN k ELSE BitsAbove(n, k + 1)

\* the binary exponent q with 2^52 <= |x| / 2^q < 2^53, not below MinBinExp
BinExp(x) ==
  LET a  == NatDigits(x.c) + x.e - 1
      q0 == (a * 3321) \div 1000 - MantissaBits - 1
      f  == Call("Scaled", <<x, q0>>)
      n  == Call("NatDivMod", <<f[1], f[2]>>)[1]
  IN  Max(q0 + Call("BitsAbove", <<n, 0>>), MinBinExp)

\* the double nearest to |x| (ties to even), x finite and not 0: a record
\* [m, q] for the value m * 2^q, with q = MaxBinExp + 1 standing for Infinity
Nearest(x) ==
  LET q   == Call("BinExp", <<x>>)
      f   == Call("Scaled", <<x, q>>)
      dm  == Call("NatDivMod", <<f[1], f[2]>>)
      o   == Call("NatCmp", <<Call("NatMulSmall", <<dm[2], 2>>), f[2]>>)
      odd == NatIsOdd(dm[1])
      m   == IF o > 0 \/ (o = 0 /\ odd) THEN Call("NatAdd", <<dm[1], <<1>>>>) ELSE dm[1]
      r   == IF m = Call("Pow2", <<MantissaBits>>)
             THEN [m |-> Call("Pow2", <<MantissaBits - 1>>), q |-> q + 1]
             ELSE [m |-> m, q |-> q]
  IN  IF r.q > MaxBinExp THEN [m |-> <<>>, q |-> MaxBinExp + 1] ELSE r

\* the exact decimal value of the double m * 2^q
DoubleValue(r) ==
  IF r.q >= 0 THEN Call("DFin", <<1, Call("NatMul", <<r.m, Call("Pow2", <<r.q>>)>>), 0>>)
  ELSE Call("DFin", <<1, Call("NatMul", <<r.m, Call("Pow5", <<-r.q>>)>>), r.q>>)

\* 2^k as a decimal
DecPow2(k) == IF k >= 0 THEN Call("DFin", <<1, Call("Pow2", <<k>>), 0>>) ELSE Call("DFin", <<1,
                               Call("Pow5", <<-k>>), k>>)

\* the exact difference |x - y| of two finite decimals
Distance(x, y) ==
  LET e  == Min(x.e, y.e)
      cx == Call("NatMulPow10", <<x.c, x.e - e>>)
      cy == Call("NatMulPow10", <<y.c, y.e - e>>)
  IN  IF x.s # y.s THEN Call("DFin", <<1, Call("NatAdd", <<cx, cy>>), e>>)
      ELSE IF Call("NatCmp", <<cx, cy>>) >= 0 THEN Call("DFin", <<1, Call("NatSub", <<cx, cy>>),
                e>>)
      ELSE Call("DFin", <<1, Call("NatSub", <<cy, cx>>), e>>)

\* whether the positive decimal y reads as the double r of exact value x:
\* y lies within half the gap to the neighbouring double (the gap below a
\* power of two is half the gap above it); a tie goes to the even mantissa
ReadsAs(y, r, x) ==
  LET below == Call("MagCmp", <<y, x>>) < 0
      edge  == below /\ r.m = Call("Pow2", <<MantissaBits - 1>>) /\ r.q > MinBinExp
      half  == Call("DecPow2", <<IF edge THEN r.q - 2 ELSE r.q - 1>>)
      o     == Call("MagCmp", <<Call("Distance", <<y, x>>), half>>)
  IN  y.c # <<>> /\ (o < 0 \/ (o = 0 /\ ~NatIsOdd(r.m)))

\* the k-digit decimals next to x: below (towards zero) and above
DigitsBelow(x, k) == Call("DTrunc", <<1, x.c, x.e, k>>)
DigitsAbove(x, k) ==
  LET n == NatDigits(x.c)
  IN  IF n <= k THEN x
      ELSE Call("DFin", <<1, Call("NatAdd", <<Call("NatDivPow10", <<x.c, n - k>>), <<1>>>>),
             x.e + (n - k)>>)

RECURSIVE Shortest(_, _, _)
\* Number::toString: the decimal of the fewest digits (k or more) that reads
\* back as the double r of exact value x; of two, the one closer to x
Shortest(x, r, k) ==
  IF k >= 17 THEN Call("DRoundEven", <<1, x.c, x.e, 17>>)
  ELSE LET lo   == Call("DigitsBelow", <<x, k>>)
           hi   == Call("DigitsAbove", <<x, k>>)
           near == Call("DRoundEven", <<1, x.c, x.e, k>>)
           far  == IF near = lo THEN hi ELSE lo
       IN  IF Call("ReadsAs", <<near, r, x>>) THEN near
           ELSE IF Call("ReadsAs", <<far, r, x>>) THEN far
           ELSE Shortest(x, r, k + 1)

\* a finite decimal of at most 15 digits well inside the normal range is
\* the shortest representation of the double it reads as
RoundTrips(x) ==
  NatDigits(x.c) <= 15 /\ NatDigits(x.c) + x.e > -290 /\ NatDigits(x.c) + x.e < 290

\* Decimal.prototype.toNumber, and the reading of a decimal literal: the
\* nearest double
ToNumber(x) ==
  IF ~IsFin(x) \/ x.c = <<>> THEN x
  ELSE IF Call("RoundTrips", <<x>>) THEN x
  ELSE LET r == Call("Nearest", <<x>>)
       IN  IF r.q > MaxBinExp THEN DInf(x.s)
           ELSE IF r.m = <<>> THEN DZero(x.s)
           ELSE LET v == Call("DoubleValue", <<r>>)
                    y == Call("Shortest", <<v, r, IF r.q = MinBinExp THEN 1 ELSE 15>>)
                IN  [y EXCEPT !.s = x.s]

IsInteger(x) == IsFin(x) /\ x.e >= 0
IsOddInteger(x) == IsFin(x) /\ x.e = 0 /\ x.c # <<>> /\ x.c[1] % 2 = 1

\* the magnitude of an integer-valued decimal as an integer
DecToInt(x) == NatToInt(Call("NatMulPow10", <<x.c, x.e>>))

\* Math.pow(x, y) where x or y is NaN, infinite or zero
MathPowSpecial(x, y) ==
  LET one == DInt(1)
  IN  IF IsNaN(y) THEN DNaN
      ELSE IF DecIsZero(y) THEN one
      ELSE IF IsNaN(x) THEN DNaN
      ELSE IF IsInf(y)
      THEN LET o == Call("DecCmp", <<[x EXCEPT !.s = 1], one>>)
           IN  IF o = 0 THEN DNaN
               ELSE IF (o > 0) = (y.s > 0) THEN DInf(1) ELSE DZero(1)
      ELSE LET sgn == IF x.s < 0 /\ Call("IsOddInteger", <<y>>) THEN -1 ELSE 1
           IN  IF IsInf(x) = (y.s > 0) THEN DInf(sgn) ELSE DZero(sgn)

\* decimal.js keeps a coefficient in words of WordDigits digits, aligned
\* on the decimal point; intPow cuts each product to IntPowWords words
WordDigits == 7
IntPowWords == ((Precision + WordDigits - 1) \div WordDigits) + 4

\* s * c * 10^e cut to its first IntPowWords words
TruncateWords(s, c, e) ==
  LET first == ((NatDigits(c) + e - 1) % WordDigits) + 1
  IN  Call("DTrunc", <<s, c, e, first + WordDigits * (IntPowWords - 1)>>)

RECURSIVE IntPow(_, _, _)
\* exponentiation by squaring, each product cut to IntPowWords words (the
\* final increment of a zero last word cannot change a half-up rounding)
IntPow(r, x, n) ==
  LET r1 == IF n % 2 = 1
            THEN Call("TruncateWords", <<r.s * x.s, Call("NatMul", <<r.c, x.c>>), r.e + x.e>>)
            ELSE r
      x2 == Call("TruncateWords", <<1, Call("NatMul", <<x.c, x.c>>), x.e + x.e>>)
  IN  IF n \div 2 = 0 THEN r1
      ELSE IF IsFin(r1) /\ IsFin(x2) THEN IntPow(r1, x2, n \div 2)
      ELSE DNaN

\* Decimal.prototype.pow for a native exponent y that is an integer, NaN or
\* infinite.  A fractional exponent (the exp(y ln x) of decimal.js) is
\* outside the model: it has no value here, and no input below leads to it.
DecPow(x, y) ==
  IF ~IsFin(x) \/ ~IsFin(y) \/ DecIsZero(x) \/ DecIsZero(y)
  THEN Call("MathPowSpecial", <<Call("ToNumber", <<x>>), y>>)
  ELSE IF x = DInt(1) THEN x
  ELSE IF y = DInt(1) THEN Call("DRound", <<x.s, x.c, x.e, Precision>>)
  ELSE IF ~Call("IsInteger", <<y>>) THEN CHOOSE r \in {} : TRUE
  ELSE LET r == Call("IntPow", <<DInt(1), x, Call("DecToInt", <<y>>)>>)
       IN  IF y.s < 0 THEN Call("DecDivFin", <<DInt(1), r, Precision>>)
           ELSE Call("DRound", <<r.s, r.c, r.e, Precision>>)

(***************************************************************************)
(* Strings are sequences of one-character strings.  parseFloat reads the   *)
(* longest prefix that is a decimal literal (StrDecimalLiteral) after      *)
(* leading blanks, and gives the double nearest its value; NaN if there is *)
(* no such prefix.                                                         *)
(***************************************************************************)
Digits == {"0", "1", "2", "3", "4", "5", "6", "7", "8", "9"}

IsDigit(ch) == ch \in Digits

DigitValue(ch) ==
  CASE ch = "0" -> 0 [] ch = "1" -> 1 [] ch = "2" -> 2 [] ch = "3" -> 3
    [] ch = "4" -> 4 [] ch = "5" -> 5 [] ch = "6" -> 6 [] ch = "7" -> 7
    [] ch = "8" -> 8 [] ch = "9" -> 9

\* the character of str at position i, "" past its end
CharAt(str, i) == IF i >= 1 /\ i <= Len(str) THEN str[i] ELSE ""

RECURSIVE DigitRun(_, _)
\* the number of digits of str from position i on
DigitRun(str, i) == IF IsDigit(CharAt(str, i)) THEN 1 + DigitRun(str, i + 1) ELSE 0

RECURSIVE BlankRun(_, _)
\* the number of blanks of str from position i on
BlankRun(str, i) == IF CharAt(str, i) = " " THEN 1 + BlankRun(str, i + 1) ELSE 0

StartsWith(str, i, word) ==
  \A k \in 1..Len(word) : CharAt(str, i + k - 1) = word[k]

RECURSIVE IntOfDigits(_, _, _)
\* the integer written by the digits of str at positions lo..hi (a few digits)
IntOfDigits(str, lo, hi) ==
  IF lo > hi THEN 0 ELSE 10 * IntOfDigits(str, lo, hi - 1) + DigitValue(str[hi])

\* the natural written by the digits of str at positions lo..hi: its limbs
\* are the groups of four digits from the right
NatOfDigits(str, lo, hi) ==
  LET n == (hi - lo + 4) \div 4
  IN  NatNorm(Tup([k \in 1..n |->
                     Call("IntOfDigits", <<str, Max(lo, hi - 4 * k + 1), hi - 4 * k + 4>>)], n))

ParseFloat(str) ==
  LET blank == 1 + Call("BlankRun", <<str, 1>>)
      sgn   == IF CharAt(str, blank) = "-" THEN -1 ELSE 1
      i     == IF CharAt(str, blank) \in {"-", "+"} THEN blank + 1 ELSE blank
      n1    == Call("DigitRun", <<str, i>>)
      dot   == CharAt(str, i + n1) = "."
      n2    == IF dot THEN Call("DigitRun", <<str, i + n1 + 1>>) ELSE 0
      j     == IF dot THEN i + n1 + 1 + n2 ELSE i + n1
      esgn  == IF CharAt(str, j + 1) = "-" THEN -1 ELSE 1
      k     == IF CharAt(str, j + 1) \in {"-", "+"} THEN j + 2 ELSE j + 1
      n3    == IF CharAt(str, j) \in {"e", "E"} THEN Call("DigitRun", <<str, k>>) ELSE 0
      ex    == esgn * Call("IntOfDigits", <<str, k, k + n3 - 1>>)
      c     == Call("NatAdd", <<Call("NatMulPow10", <<Call("NatOfDigits", <<str, i,
                 i + n1 - 1>>), n2>>),
                      Call("NatOfDigits", <<str, i + n1 + 1, i + n1 + n2>>)>>)
  IN  IF Call("StartsWith", <<str, i, <<"I", "n", "f", "i", "n", "i", "t", "y">>>>) THEN DInf(sgn)
      ELSE IF n1 + n2 = 0 THEN DNaN
      ELSE Call("ToNumber", <<Call("DFin", <<sgn, c, ex - n2>>)>>)

(***************************************************************************)
(* Arithmetic on native numbers, as the component uses it on the months of *)
(* the repayment period: each operation gives the double nearest to the    *)
(* exact result on the exact values of its operands.                       *)
(***************************************************************************)
\* the exact value of the native number v, finite and not 0
Exact(v) == [Call("DoubleValue", <<Call("Nearest", <<v>>)>>) EXCEPT !.s = v.s]

\* value || 0
OrZero(v) == IF IsNaN(v) \/ DecIsZero(v) THEN DInt(0) ELSE v

\* v * w
NumTimes(v, w) ==
  IF IsNaN(v) \/ IsNaN(w) THEN DNaN
  ELSE IF IsInf(v) \/ IsInf(w)
  THEN (IF DecIsZero(v) \/ DecIsZero(w) THEN DNaN ELSE DInf(v.s * w.s))
  ELSE IF DecIsZero(v) \/ DecIsZero(w) THEN DZero(v.s * w.s)
  ELSE LET x == Call("Exact", <<v>>)
           y == Call("Exact", <<w>>)
       IN  Call("ToNumber", <<Call("DFin", <<x.s * y.s, Call("NatMul", <<x.c, y.c>>),
                                            x.e + y.e>>)>>)

\* v + w
NumPlus(v, w) ==
  IF IsNaN(v) \/ IsNaN(w) THEN DNaN
  ELSE IF IsInf(v) /\ IsInf(w) THEN (IF v.s = w.s THEN v ELSE DNaN)
  ELSE IF IsInf(v) THEN v
  ELSE IF IsInf(w) THEN w
  ELSE IF DecIsZero(v) \/ DecIsZero(w)
  THEN (IF DecIsZero(v) /\ DecIsZero(w) THEN DZero(IF v.s = w.s THEN v.s ELSE 1)
        ELSE IF DecIsZero(v) THEN w ELSE v)
  ELSE LET x == Call("Exact", <<v>>)
           y == Call("Exact", <<w>>)
           n == NatDigits(x.c) + NatDigits(y.c) + Max(x.e, y.e) - Min(x.e, y.e)
       IN  Call("ToNumber", <<Call("DecPlusFin", <<x, y, n + 1>>)>>)

\* v % w: the remainder of the division cut towards zero, with the sign of v
NumRemainder(v, w) ==
  IF IsNaN(v) \/ IsNaN(w) \/ IsInf(v) \/ DecIsZero(w) THEN DNaN
  ELSE IF IsInf(w) \/ DecIsZero(v) THEN v
  ELSE LET x == Call("Exact", <<v>>)
           y == Call("Exact", <<w>>)
           e == Min(x.e, y.e)
           r == Call("NatDivMod", <<Call("NatMulPow10", <<x.c, x.e - e>>),
                                    Call("NatMulPow10", <<y.c, y.e - e>>)>>)[2]
       IN  IF r = <<>> THEN DZero(v.s) ELSE Call("ToNumber", <<Call("DFin", <<v.s, r, e>>)>>)

\* v / w.  The quotient is cut to so many digits that it cannot be taken
\* for the middle of two doubles, and a last digit 1 stands for what is cut.
NumDividedBy(v, w) ==
  IF IsNaN(v) \/ IsNaN(w) THEN DNaN
  ELSE IF IsInf(v) THEN (IF IsInf(w) THEN DNaN ELSE DInf(v.s * w.s))
  ELSE IF IsInf(w) THEN DZero(v.s * w.s)
  ELSE IF DecIsZero(w) THEN (IF DecIsZero(v) THEN DNaN ELSE DInf(v.s * w.s))
  ELSE IF DecIsZero(v) THEN DZero(v.s * w.s)
  ELSE LET x     == Call("Exact", <<v>>)
           y     == Call("Exact", <<w>>)
           a     == (NatDigits(x.c) + x.e) - (NatDigits(y.c) + y.e)
           p     == 60 + 4 * (IF a < 0 THEN -a ELSE a)
           shift == Max(0, p + NatDigits(y.c) - NatDigits(x.c))
           qr    == Call("NatDivMod", <<Call("NatMulPow10", <<x.c, shift>>), y.c>>)
           q     == Call("NatAdd", <<Call("NatMulPow10", <<qr[1], 1>>),
                                     IF qr[2] = <<>> THEN <<>> ELSE <<1>>>>)
       IN  Call("ToNumber", <<Call("DFin", <<x.s * y.s, q, x.e - y.e - shift - 1>>)>>)

\* Math.floor(v)
MathFloor(v) ==
  IF ~IsFin(v) \/ v.e >= 0 THEN v
  ELSE LET t == Call("NatDivPow10", <<v.c, -v.e>>)
       IN  IF v.s > 0 THEN Call("DFin", <<1, t, 0>>)
           ELSE Call("DFin", <<-1, Call("NatAdd", <<t, <<1>>>>), 0>>)

DigitCharacters == <<"0", "1", "2", "3", "4", "5", "6", "7", "8", "9">>

\* the decimal digits of the natural c, the first first
DigitString(c) ==
  LET n == NatDigits(c)
  IN  Tup([i \in 1..n |-> DigitCharacters[NatDigitAt(c, n - i) + 1]], n)

\* Number.prototype.toString: the digits of the shortest representation,
\* written out for a number from 10^-7 up to 10^21 and with an exponent
\* otherwise
NumberToString(v) ==
  IF IsNaN(v) THEN <<"N", "a", "N">>
  ELSE IF DecIsZero(v) THEN <<"0">>
  ELSE LET sign == IF v.s < 0 THEN <<"-">> ELSE <<>>
       IN  IF IsInf(v) THEN sign \o <<"I", "n", "f", "i", "n", "i", "t", "y">>
           ELSE LET d == Call("DigitString", <<v.c>>)
                    n == Len(d)
                    k == n + v.e
                    x == k - 1
                IN  IF k > 21 \/ k < -5
                    THEN sign \o <<d[1]>> \o (IF n > 1 THEN <<".">> \o SubSeq(d, 2, n) ELSE <<>>)
                           \o <<"e", IF x < 0 THEN "-" ELSE "+">>
                           \o Call("DigitString", <<NatOfInt(IF x < 0 THEN -x ELSE x)>>)
                    ELSE IF v.e >= 0 THEN sign \o d \o Tup([i \in 1..v.e |-> "0"], v.e)
                    ELSE IF k > 0 THEN sign \o SubSeq(d, 1, k) \o <<".">> \o SubSeq(d, k + 1, n)
                    ELSE sign \o <<"0", ".">> \o Tup([i \in 1..(-k) |-> "0"], -k) \o d

(***************************************************************************)
(* The calculation engine (EMICalculationService)                          *)
(***************************************************************************)
\* new Decimal(v) for a native number v.  The constructor reads the digits
\* of the shortest representation of v and does not round them; a native
\* number is kept here as the decimal of that representation (ToNumber
\* computes it), so the value constructed is that decimal.
NewDecimal(v) == v

\* the native v > w
NumGt(v, w) == Call("DecGt", <<v, w>>)

MaxSafeInteger == Call("NatSub", <<Call("Pow2", <<MantissaBits>>), <<1>>>>)

InitialTaxBrackets ==
  << [min |-> DInt(0), max |-> DInt(720000), rate |-> DInt(0)],
     [min |-> DInt(720000), max |-> DInt(1200000), rate |-> Lit(55, -1)],
     [min |-> DInt(1200000), max |-> DInt(1800000), rate |-> DInt(8)],
     [min |-> DInt(1800000), max |-> DInt(2400000), rate |-> DInt(12)],
     [min |-> DInt(2400000), max |-> DInf(1), rate |-> DInt(15)] >>

getNumericValue(value) ==
  LET read   == Call("ParseFloat", <<value>>)
      parsed == IF IsNaN(read) \/ DecIsZero(read) THEN DInt(0) ELSE read
  IN  Call("ToNumber", <<NewDecimal(parsed)>>)

convertToNumericFormData(formData) ==
  [salary |-> Call("getNumericValue", <<formData.salary>>),
   rent |-> Call("getNumericValue", <<formData.rent>>),
   other |-> Call("getNumericValue", <<formData.other>>),
   projectIncome |-> Call("getNumericValue", <<formData.projectIncome>>),
   existingLoans |-> Call("getNumericValue", <<formData.existingLoans>>),
   totalProjectCost |-> Call("getNumericValue", <<formData.totalProjectCost>>),
   equityPercentage |-> Call("getNumericValue", <<formData.equityPercentage>>),
   rate |-> Call("getNumericValue", <<formData.rate>>),
   repaymentPeriod |-> Call("getNumericValue", <<formData.repaymentPeriod>>),
   gracePeriod |-> Call("getNumericValue", <<formData.gracePeriod>>)]

\* a bracket's tax taken alone, the tax so far dropped
BracketTaxAlone(bracket, income, tax) ==
  LET bracketMin == NewDecimal(bracket.min)
      bracketMax == IF bracket.max = DInf(1) THEN Call("DFin", <<1, MaxSafeInteger, 0>>)
                    ELSE NewDecimal(bracket.max)
      taxableInBracket == Call("DecMin", <<Call("DecMinus", <<income, bracketMin>>),
                                           Call("DecMinus", <<bracketMax, bracketMin>>)>>)
      bracketTax == Call("DecDiv", <<Call("DecMul", <<taxableInBracket,
                                                      NewDecimal(bracket.rate)>>), DInt(100)>>)
  IN  IF Call("DecGt", <<income, bracketMin>>) THEN bracketTax ELSE tax

\* the tax of one bracket added to the tax so far
BracketTax(bracket, income, tax) ==
  LET bracketMin == NewDecimal(bracket.min)
      bracketMax == IF bracket.max = DInf(1) THEN Call("DFin", <<1, MaxSafeInteger, 0>>)
                    ELSE NewDecimal(bracket.max)
      taxableInBracket == Call("DecMin", <<Call("DecMinus", <<income, bracketMin>>),
                                 Call("DecMinus", <<bracketMax, bracketMin>>)>>)
      bracketTax == Call("DecDiv", <<Call("DecMul", <<taxableInBracket,
                      NewDecimal(bracket.rate)>>), DInt(100)>>)
  IN  IF Call("DecGt", <<income, bracketMin>>) THEN Call("DecPlus", <<tax, bracketTax>>) ELSE tax

RECURSIVE TaxOverBrackets(_, _, _, _)
\* the loop over the brackets from the i-th on
TaxOverBrackets(brackets, i, income, tax) ==
  IF i > Len(brackets) THEN tax
  ELSE TaxOverBrackets(brackets, i + 1, income, Call("BracketTax", <<brackets[i], income, tax>>))

\* the tax of the year, not brought to the month
calculateAnnualIncomeTax(annualIncome) ==
  Call("ToNumber", <<Call("TaxOverBrackets", <<taxBrackets, 1, NewDecimal(annualIncome),
                                               DInt(0)>>)>>)

\* a tax that starts from the tax of the calculation answered last
calculateIncomeTaxRunning(annualIncome) ==
  LET done    == {k \in 1..Len(returns) : calls[k].op = "performCalculations"}
      carried == IF done = {} THEN DInt(0) ELSE returns[Maximum(done)].incomeTax
      tax     == Call("TaxOverBrackets", <<taxBrackets, 1, NewDecimal(annualIncome),
                                          NewDecimal(carried)>>)
  IN  Call("ToNumber", <<Call("DecDiv", <<tax, DInt(12)>>)>>)

calculateIncomeTax(annualIncome) ==
  LET tax == Call("TaxOverBrackets", <<taxBrackets, 1, NewDecimal(annualIncome), DInt(0)>>)
  IN  Call("ToNumber", <<Call("DecDiv", <<tax, DInt(12)>>)>>)

\* the standard formula at every rate, the zero rate included
calculateEMIByFormula(principal, rate, tenure) ==
  LET p == NewDecimal(principal)
      r == NewDecimal(rate)
      n == NewDecimal(tenure)
      monthlyRate == Call("DecDiv", <<Call("DecDiv", <<r, DInt(100)>>), DInt(12)>>)
      onePlusR == Call("DecPlus", <<monthlyRate, DInt(1)>>)
      onePlusRPowerN == Call("DecPow", <<onePlusR, Call("ToNumber", <<n>>)>>)
      numerator == Call("DecMul", <<Call("DecMul", <<p, monthlyRate>>), onePlusRPowerN>>)
      denominator == Call("DecMinus", <<onePlusRPowerN, DInt(1)>>)
  IN  Call("ToNumber", <<Call("DecDiv", <<numerator, denominator>>)>>)

\* the straight line at every rate
calculateEMIStraightLine(principal, rate, tenure) ==
  Call("ToNumber", <<Call("DecDiv", <<NewDecimal(principal), NewDecimal(tenure)>>)>>)

calculateEMI(principal, rate, tenure) ==
  LET p == NewDecimal(principal)
      r == NewDecimal(rate)
      n == NewDecimal(tenure)
      monthlyRate == Call("DecDiv", <<Call("DecDiv", <<r, DInt(100)>>), DInt(12)>>)
      onePlusR == Call("DecPlus", <<monthlyRate, DInt(1)>>)
      onePlusRPowerN == Call("DecPow", <<onePlusR, Call("ToNumber", <<n>>)>>)
      numerator == Call("DecMul", <<Call("DecMul", <<p, monthlyRate>>), onePlusRPowerN>>)
      denominator == Call("DecMinus", <<onePlusRPowerN, DInt(1)>>)
  IN  IF DecIsZero(monthlyRate) THEN Call("ToNumber", <<Call("DecDiv", <<p, n>>)>>)
      ELSE Call("ToNumber", <<Call("DecDiv", <<numerator, denominator>>)>>)

calculateGracePeriodPayment(principal, rate) ==
  LET p == NewDecimal(principal)
      r == NewDecimal(rate)
  IN  Call("ToNumber", <<Call("DecDiv", <<Call("DecDiv", <<Call("DecMul", <<p, r>>),
        DInt(100)>>), DInt(12)>>)>>)

\* the multiplier applied to the salary alone
applyScenarioMultipliersSalaryOnly(formData, scenario) ==
  LET multiplier == IF scenario = "income_reduce" THEN Lit(8, -1) ELSE DInt(1)
  IN  [adjustedSalary |-> Call("ToNumber", <<Call("DecMul", <<NewDecimal(formData.salary),
                            multiplier>>)>>),
       adjustedRent |-> formData.rent,
       adjustedOther |-> formData.other,
       adjustedProjectIncome |-> formData.projectIncome]

applyScenarioMultipliers(formData, scenario) ==
  LET multiplier == IF scenario = "income_reduce" THEN Lit(8, -1) ELSE DInt(1)
  IN  [adjustedSalary |-> Call("ToNumber", <<Call("DecMul", <<NewDecimal(formData.salary),
                            multiplier>>)>>),
       adjustedRent |-> Call("ToNumber", <<Call("DecMul", <<NewDecimal(formData.rent),
                          multiplier>>)>>),
       adjustedOther |-> Call("ToNumber", <<Call("DecMul", <<NewDecimal(formData.other),
                           multiplier>>)>>),
       adjustedProjectIncome |->
         Call("ToNumber", <<Call("DecMul", <<NewDecimal(formData.projectIncome), multiplier>>)>>)]

calculateBankFinanceAmount(totalProjectCost, equityPercentage) ==
  LET cost == NewDecimal(totalProjectCost)
      equity == NewDecimal(equityPercentage)
      equityRatio == Call("DecDiv", <<equity, DInt(100)>>)
      bankFinanceRatio == Call("DecMinus", <<DInt(1), equityRatio>>)
  IN  Call("ToNumber", <<Call("DecMul", <<cost, bankFinanceRatio>>)>>)

\* the cost times the percentage, not brought to a ratio
calculateEquityProduct(totalProjectCost, equityPercentage) ==
  Call("ToNumber", <<Call("DecMul", <<NewDecimal(totalProjectCost),
                                      NewDecimal(equityPercentage)>>)>>)

calculateEquityAmount(totalProjectCost, equityPercentage) ==
  LET cost == NewDecimal(totalProjectCost)
      equity == NewDecimal(equityPercentage)
  IN  Call("ToNumber", <<Call("DecDiv", <<Call("DecMul", <<cost, equity>>), DInt(100)>>)>>)

\* performCalculations after the conversion of the form: numericData is the
\* converted form
calculate(numericData, scenario, isAfterGrace) ==
  LET adjusted == Call("applyScenarioMultipliers", <<numericData, scenario>>)
      adjustedSalary == adjusted.adjustedSalary
      adjustedRent == adjusted.adjustedRent
      adjustedOther == adjusted.adjustedOther
      adjustedProjectIncome == adjusted.adjustedProjectIncome
      totalIncome ==
        Call("ToNumber", <<Call("DecPlus", <<Call("DecPlus", <<NewDecimal(adjustedSalary),
          NewDecimal(adjustedRent)>>),
                         NewDecimal(adjustedOther)>>)>>)
      expenditureRate ==
        IF Call("NumGt", <<totalIncome, DInt(25000)>>) THEN Lit(35, -2) ELSE Lit(4, -1)
      totalExpenditure == Call("ToNumber", <<Call("DecMul", <<NewDecimal(totalIncome),
                            expenditureRate>>)>>)
      totalProjectIncome == IF isAfterGrace THEN adjustedProjectIncome ELSE DInt(0)
      bankFinanceAmount ==
        Call("calculateBankFinanceAmount", <<numericData.totalProjectCost,
                                   numericData.equityPercentage>>)
      afterGraceRepayment ==
        Call("calculateEMI", <<bankFinanceAmount, numericData.rate, numericData.repaymentPeriod>>)
      gracePeriodRepayment ==
        Call("calculateGracePeriodPayment", <<bankFinanceAmount, numericData.rate>>)
      currentMonthlyRepayment ==
        IF isAfterGrace THEN afterGraceRepayment ELSE gracePeriodRepayment
      maintenanceCost ==
        IF Call("NumGt", <<adjustedRent, DInt(0)>>) \/ Call("NumGt", <<adjustedProjectIncome,
             DInt(0)>>)
        THEN Call("ToNumber", <<Call("DecMul", <<Call("DecPlus", <<NewDecimal(adjustedRent),
                                     IF isAfterGrace
                                     THEN NewDecimal(adjustedProjectIncome)
                                     ELSE DInt(0)>>),
                             Lit(5, -2)>>)>>)
        ELSE DInt(0)
      annualTotalIncome ==
        Call("ToNumber", <<Call("DecMul", <<Call("DecPlus", <<NewDecimal(totalIncome),
          NewDecimal(totalProjectIncome)>>),
                        DInt(12)>>)>>)
      monthlyIncomeTax == Call("calculateIncomeTax", <<annualTotalIncome>>)
      baseProjectExpenditure ==
        Call("DecPlus", <<NewDecimal(maintenanceCost), NewDecimal(monthlyIncomeTax)>>)
      totalProjectExpenditure ==
        IF scenario = "income_reduce"
        THEN Call("DecPlus", <<baseProjectExpenditure, Call("DecMul", <<NewDecimal(totalIncome),
               Lit(2, -1)>>)>>)
        ELSE baseProjectExpenditure
      finalProjectExpenditure == Call("ToNumber", <<totalProjectExpenditure>>)
      netIncome ==
        Call("ToNumber", <<Call("DecMinus", <<Call("DecPlus", <<Call("DecMinus",
          <<NewDecimal(totalIncome),
                                           NewDecimal(totalExpenditure)>>),
                                  NewDecimal(totalProjectIncome)>>),
                          NewDecimal(finalProjectExpenditure)>>)>>)
      totalRepaymentObligation ==
        Call("DecPlus", <<NewDecimal(numericData.existingLoans), NewDecimal(afterGraceRepayment)>>)
      dscr == IF DecIsZero(totalRepaymentObligation) THEN DInt(0)
              ELSE Call("ToNumber", <<Call("DecDiv", <<NewDecimal(netIncome),
                     totalRepaymentObligation>>)>>)
  IN  [totalIncome |-> totalIncome,
       totalExpenditure |-> totalExpenditure,
       totalProjectIncome |-> totalProjectIncome,
       totalProjectExpenditure |-> finalProjectExpenditure,
       netIncome |-> netIncome,
       monthlyRepayment |-> currentMonthlyRepayment,
       afterGraceRepayment |-> afterGraceRepayment,
       gracePeriodRepayment |-> gracePeriodRepayment,
       dscr |-> dscr,
       incomeTax |-> monthlyIncomeTax,
       maintenanceCost |-> maintenanceCost,
       bankFinanceAmount |-> bankFinanceAmount]

\* the calculation with every step taken on decimals: the numbers of the
\* form are made decimals once, and a value becomes a native number only in
\* the record returned
calculateInDecimal(numericData, scenario, isAfterGrace) ==
  LET multiplier == IF scenario = "income_reduce" THEN Lit(8, -1) ELSE DInt(1)
      adjustedSalary == Call("DecMul", <<NewDecimal(numericData.salary), multiplier>>)
      adjustedRent == Call("DecMul", <<NewDecimal(numericData.rent), multiplier>>)
      adjustedOther == Call("DecMul", <<NewDecimal(numericData.other), multiplier>>)
      adjustedProjectIncome ==
        Call("DecMul", <<NewDecimal(numericData.projectIncome), multiplier>>)
      totalIncome ==
        Call("DecPlus", <<Call("DecPlus", <<adjustedSalary, adjustedRent>>), adjustedOther>>)
      expenditureRate ==
        IF Call("DecGt", <<totalIncome, DInt(25000)>>) THEN Lit(35, -2) ELSE Lit(4, -1)
      totalExpenditure == Call("DecMul", <<totalIncome, expenditureRate>>)
      totalProjectIncome == IF isAfterGrace THEN adjustedProjectIncome ELSE DInt(0)
      bankFinanceAmount ==
        Call("DecMul", <<NewDecimal(numericData.totalProjectCost),
          Call("DecMinus", <<DInt(1),
            Call("DecDiv", <<NewDecimal(numericData.equityPercentage), DInt(100)>>)>>)>>)
      r == NewDecimal(numericData.rate)
      n == NewDecimal(numericData.repaymentPeriod)
      monthlyRate == Call("DecDiv", <<Call("DecDiv", <<r, DInt(100)>>), DInt(12)>>)
      onePlusRPowerN ==
        Call("DecPow", <<Call("DecPlus", <<monthlyRate, DInt(1)>>), Call("ToNumber", <<n>>)>>)
      afterGraceRepayment ==
        IF DecIsZero(monthlyRate) THEN Call("DecDiv", <<bankFinanceAmount, n>>)
        ELSE Call("DecDiv", <<Call("DecMul", <<Call("DecMul", <<bankFinanceAmount, monthlyRate>>),
                                               onePlusRPowerN>>),
                              Call("DecMinus", <<onePlusRPowerN, DInt(1)>>)>>)
      gracePeriodRepayment ==
        Call("DecDiv", <<Call("DecDiv", <<Call("DecMul", <<bankFinanceAmount, r>>),
                                          DInt(100)>>), DInt(12)>>)
      maintenanceCost ==
        IF Call("DecGt", <<adjustedRent, DInt(0)>>)
             \/ Call("DecGt", <<adjustedProjectIncome, DInt(0)>>)
        THEN Call("DecMul", <<Call("DecPlus", <<adjustedRent,
                                IF isAfterGrace THEN adjustedProjectIncome ELSE DInt(0)>>),
                              Lit(5, -2)>>)
        ELSE DInt(0)
      annualTotalIncome ==
        Call("DecMul", <<Call("DecPlus", <<totalIncome, totalProjectIncome>>), DInt(12)>>)
      monthlyIncomeTax ==
        Call("DecDiv", <<Call("TaxOverBrackets", <<taxBrackets, 1, annualTotalIncome, DInt(0)>>),
                         DInt(12)>>)
      baseProjectExpenditure == Call("DecPlus", <<maintenanceCost, monthlyIncomeTax>>)
      totalProjectExpenditure ==
        IF scenario = "income_reduce"
        THEN Call("DecPlus", <<baseProjectExpenditure,
                               Call("DecMul", <<totalIncome, Lit(2, -1)>>)>>)
        ELSE baseProjectExpenditure
      netIncome ==
        Call("DecMinus", <<Call("DecPlus", <<Call("DecMinus", <<totalIncome, totalExpenditure>>),
                                             totalProjectIncome>>),
                           totalProjectExpenditure>>)
      totalRepaymentObligation ==
        Call("DecPlus", <<NewDecimal(numericData.existingLoans), afterGraceRepayment>>)
      dscr == IF DecIsZero(totalRepaymentObligation) THEN DInt(0)
              ELSE Call("DecDiv", <<netIncome, totalRepaymentObligation>>)
  IN  [totalIncome |-> Call("ToNumber", <<totalIncome>>),
       totalExpenditure |-> Call("ToNumber", <<totalExpenditure>>),
       totalProjectIncome |-> Call("ToNumber", <<totalProjectIncome>>),
       totalProjectExpenditure |-> Call("ToNumber", <<totalProjectExpenditure>>),
       netIncome |-> Call("ToNumber", <<netIncome>>),
       monthlyRepayment |-> Call("ToNumber", <<IF isAfterGrace THEN afterGraceRepayment
                                               ELSE gracePeriodRepayment>>),
       afterGraceRepayment |-> Call("ToNumber", <<afterGraceRepayment>>),
       gracePeriodRepayment |-> Call("ToNumber", <<gracePeriodRepayment>>),
       dscr |-> Call("ToNumber", <<dscr>>),
       incomeTax |-> Call("ToNumber", <<monthlyIncomeTax>>),
       maintenanceCost |-> Call("ToNumber", <<maintenanceCost>>),
       bankFinanceAmount |-> Call("ToNumber", <<bankFinanceAmount>>)]

\* the ratio taken without the guard on a zero obligation
performCalculationsUnguarded(formData, scenario, isAfterGrace) ==
  LET numericData == Call("convertToNumericFormData", <<formData>>)
      result      == Call("calculate", <<numericData, scenario, isAfterGrace>>)
      totalRepaymentObligation ==
        Call("DecPlus", <<NewDecimal(numericData.existingLoans),
                          NewDecimal(result.afterGraceRepayment)>>)
  IN  [result EXCEPT !.dscr = Call("ToNumber", <<Call("DecDiv", <<NewDecimal(result.netIncome),
                                                     totalRepaymentObligation>>)>>)]

\* the grace state ignored: project income always counted
performCalculationsAfterGrace(formData, scenario, isAfterGrace) ==
  Call("calculate", <<Call("convertToNumericFormData", <<formData>>), scenario, TRUE>>)

\* the scenario's multiplier applied to the project cost as well
performCalculationsScaledCost(formData, scenario, isAfterGrace) ==
  LET numericData == Call("convertToNumericFormData", <<formData>>)
      multiplier  == IF scenario = "income_reduce" THEN Lit(8, -1) ELSE DInt(1)
      scaledCost  == Call("ToNumber", <<Call("DecMul", <<NewDecimal(numericData.totalProjectCost),
                                                         multiplier>>)>>)
  IN  Call("calculate", <<[numericData EXCEPT !.totalProjectCost = scaledCost],
                          scenario, isAfterGrace>>)

\* the ratio taken over the repayment of the current grace state
performCalculationsCurrentObligation(formData, scenario, isAfterGrace) ==
  LET numericData == Call("convertToNumericFormData", <<formData>>)
      result      == Call("calculate", <<numericData, scenario, isAfterGrace>>)
      totalRepaymentObligation ==
        Call("DecPlus", <<NewDecimal(numericData.existingLoans),
                          NewDecimal(result.monthlyRepayment)>>)
  IN  [result EXCEPT !.dscr =
         IF DecIsZero(totalRepaymentObligation) THEN DInt(0)
         ELSE Call("ToNumber", <<Call("DecDiv", <<NewDecimal(result.netIncome),
                                                  totalRepaymentObligation>>)>>)]

\* the current repayment taken the wrong way round
performCalculationsSwapped(formData, scenario, isAfterGrace) ==
  LET result == Call("calculate", <<Call("convertToNumericFormData", <<formData>>),
                                     scenario, isAfterGrace>>)
  IN  [result EXCEPT !.monthlyRepayment =
         IF isAfterGrace THEN result.gracePeriodRepayment ELSE result.afterGraceRepayment]

\* the expenditure rate chosen by the income before the scenario is applied
performCalculationsRateBeforeScenario(formData, scenario, isAfterGrace) ==
  LET numericData == Call("convertToNumericFormData", <<formData>>)
      result      == Call("calculate", <<numericData, scenario, isAfterGrace>>)
      entered     == Call("ToNumber", <<Call("DecPlus", <<Call("DecPlus",
                       <<NewDecimal(numericData.salary), NewDecimal(numericData.rent)>>),
                       NewDecimal(numericData.other)>>)>>)
      expenditureRate ==
        IF Call("NumGt", <<entered, DInt(25000)>>) THEN Lit(35, -2) ELSE Lit(4, -1)
  IN  [result EXCEPT !.totalExpenditure =
         Call("ToNumber", <<Call("DecMul", <<NewDecimal(result.totalIncome), expenditureRate>>)>>)]

\* the maintenance taken on the project income in both grace states
performCalculationsFlatMaintenance(formData, scenario, isAfterGrace) ==
  LET numericData == Call("convertToNumericFormData", <<formData>>)
      result      == Call("calculate", <<numericData, scenario, isAfterGrace>>)
      adjusted    == Call("applyScenarioMultipliers", <<numericData, scenario>>)
  IN  [result EXCEPT !.maintenanceCost =
         Call("ToNumber", <<Call("DecMul", <<Call("DecPlus",
           <<NewDecimal(adjusted.adjustedRent), NewDecimal(adjusted.adjustedProjectIncome)>>),
           Lit(5, -2)>>)>>)]

\* the buffer of the reduced scenario added under both scenarios
performCalculationsBufferAlways(formData, scenario, isAfterGrace) ==
  LET result == Call("calculate", <<Call("convertToNumericFormData", <<formData>>),
                                     scenario, isAfterGrace>>)
  IN  [result EXCEPT !.totalProjectExpenditure =
         Call("ToNumber", <<Call("DecPlus", <<Call("DecPlus",
           <<NewDecimal(result.maintenanceCost), NewDecimal(result.incomeTax)>>),
           Call("DecMul", <<NewDecimal(result.totalIncome), Lit(2, -1)>>)>>)>>)]

\* the tax taken on the income without the project income in both grace
\* states
performCalculationsTaxWithoutProject(formData, scenario, isAfterGrace) ==
  LET result == Call("calculate", <<Call("convertToNumericFormData", <<formData>>),
                                     scenario, isAfterGrace>>)
  IN  [result EXCEPT !.incomeTax =
         Call("calculateIncomeTax", <<Call("ToNumber",
           <<Call("DecMul", <<NewDecimal(result.totalIncome), DInt(12)>>)>>)>>)]

\* the net income taken without the project income
performCalculationsNetWithoutProject(formData, scenario, isAfterGrace) ==
  LET result == Call("calculate", <<Call("convertToNumericFormData", <<formData>>),
                                     scenario, isAfterGrace>>)
  IN  [result EXCEPT !.netIncome =
         Call("ToNumber", <<Call("DecMinus", <<Call("DecMinus",
           <<NewDecimal(result.totalIncome), NewDecimal(result.totalExpenditure)>>),
           NewDecimal(result.totalProjectExpenditure)>>)>>)]

\* the project income returned in both grace states
performCalculationsProjectIncomeCounted(formData, scenario, isAfterGrace) ==
  LET numericData == Call("convertToNumericFormData", <<formData>>)
      result      == Call("calculate", <<numericData, scenario, isAfterGrace>>)
      adjusted    == Call("applyScenarioMultipliers", <<numericData, scenario>>)
  IN  [result EXCEPT !.totalProjectIncome = adjusted.adjustedProjectIncome]

performCalculations(formData, scenario, isAfterGrace) ==
  Call("calculate", <<Call("convertToNumericFormData", <<formData>>), scenario, isAfterGrace>>)

(***************************************************************************)
(* The loan presets (LoanService).  A JavaScript value is a record with    *)
(* one field that names its kind; a preset is an object with the           *)
(* properties id, name, interestRate and tenure.  The store holds under    *)
(* the key of the service no item, a text that is not JSON, or the JSON    *)
(* text of a value; only the value a JSON text stands for is kept of it.   *)
(***************************************************************************)
JNull == [null |-> TRUE]
JUndefined == [undefined |-> TRUE]
JBoolean(b) == [boolean |-> b]
JNumber(v) == [number |-> v]
JString(str) == [string |-> str]
JArray(items) == [items |-> items]
JObject(fields) == [fields |-> fields]

\* typeof value
TypeOf(value) ==
  CASE "undefined" \in DOMAIN value -> "undefined"
    [] "boolean" \in DOMAIN value -> "boolean"
    [] "number" \in DOMAIN value -> "number"
    [] "string" \in DOMAIN value -> "string"
    [] OTHER -> "object"

\* value[key], where value is not null or undefined
Get(value, key) ==
  IF "fields" \in DOMAIN value /\ key \in DOMAIN value.fields
  THEN value.fields[key] ELSE JUndefined

\* the value taken as a condition
Truthy(value) ==
  CASE "undefined" \in DOMAIN value -> FALSE
    [] "null" \in DOMAIN value -> FALSE
    [] "boolean" \in DOMAIN value -> value.boolean
    [] "number" \in DOMAIN value -> ~IsNaN(value.number) /\ ~DecIsZero(value.number)
    [] "string" \in DOMAIN value -> value.string # <<>>
    [] OTHER -> TRUE

\* String.prototype.trim
Trim(str) ==
  LET inked == {i \in 1..Len(str) : str[i] # " "}
  IN  IF inked = {} THEN <<>> ELSE SubSeq(str, Minimum(inked), Maximum(inked))

\* the native v <= w
NumLte(v, w) == ~IsNaN(v) /\ ~IsNaN(w) /\ Call("DecLte", <<v, w>>)

NoItem == [item |-> FALSE]
Text(str) == [text |-> str]
JsonText(value) == [json |-> value]

\* the value JSON.stringify writes for a value: a property that is
\* undefined is left out, and null stands for an element that is undefined
\* and for a number that is not finite
RECURSIVE Serial(_)
Serial(value) ==
  CASE "items" \in DOMAIN value
         -> JArray([k \in 1..Len(value.items) |->
                      IF value.items[k] = JUndefined THEN JNull ELSE Serial(value.items[k])])
    [] "fields" \in DOMAIN value
         -> JObject([key \in {k \in DOMAIN value.fields : value.fields[k] # JUndefined}
                       |-> Serial(value.fields[key])])
    [] "number" \in DOMAIN value -> IF IsFin(value.number) THEN value ELSE JNull
    [] OTHER -> value

JsonStringify(value) == JsonText(Serial(value))

LoanType(id, name, interestRate, tenure) ==
  JObject([id |-> JString(id), name |-> JString(name),
           interestRate |-> JNumber(interestRate), tenure |-> JNumber(tenure)])

DEFAULT_LOAN_TYPES ==
  << LoanType(<<"h", "o", "m", "e", "-", "l", "o", "a", "n">>,
              <<"H", "o", "m", "e", " ", "L", "o", "a", "n">>,
              Lit(85, -1), DInt(240)),
     LoanType(<<"c", "a", "r", "-", "l", "o", "a", "n">>,
              <<"C", "a", "r", " ", "L", "o", "a", "n">>,
              Lit(95, -1), DInt(60)),
     LoanType(<<"p", "e", "r", "s", "o", "n", "a", "l", "-", "l", "o", "a", "n">>,
              <<"P", "e", "r", "s", "o", "n", "a", "l", " ", "L", "o", "a", "n">>,
              DInt(12), DInt(36)),
     LoanType(<<"b", "u", "s", "i", "n", "e", "s", "s", "-", "l", "o", "a", "n">>,
              <<"B", "u", "s", "i", "n", "e", "s", "s", " ", "L", "o", "a", "n">>,
              DInt(11), DInt(84)),
     LoanType(<<"e", "d", "u", "c", "a", "t", "i", "o", "n", "-", "l", "o", "a", "n">>,
              <<"E", "d", "u", "c", "a", "t", "i", "o", "n", " ", "L", "o", "a", "n">>,
              Lit(75, -1), DInt(120)) >>

isValidLoanType(loanType) ==
  /\ TypeOf(loanType) = "object"
  /\ loanType # JNull
  /\ TypeOf(Get(loanType, "id")) = "string"
  /\ TypeOf(Get(loanType, "name")) = "string"
  /\ TypeOf(Get(loanType, "interestRate")) = "number"
  /\ TypeOf(Get(loanType, "tenure")) = "number"
  /\ Len(Trim(Get(loanType, "id").string)) > 0
  /\ Len(Trim(Get(loanType, "name").string)) > 0
  /\ NumGt(Get(loanType, "interestRate").number, DInt(0))
  /\ NumLte(Get(loanType, "interestRate").number, DInt(100))
  /\ NumGt(Get(loanType, "tenure").number, DInt(0))
  /\ NumLte(Get(loanType, "tenure").number, DInt(1200))

\* of a JavaScript array, here the sequence of its elements
isValidLoanTypesArray(loanTypes) ==
  /\ Len(loanTypes) > 0
  /\ \A k \in 1..Len(loanTypes) : Call("isValidLoanType", <<loanTypes[k]>>)

\* now is what Date.now() gives.  The operator has no value for null, where
\* the code throws a TypeError on reading loan.id.
migrateLoanType(loan, now) ==
  IF Call("isValidLoanType", <<loan>>) THEN loan
  ELSE IF TypeOf(loan) = "object" /\ Truthy(Get(loan, "id")) /\ Truthy(Get(loan, "name"))
  THEN LET found == {k \in 1..Len(DEFAULT_LOAN_TYPES) :
                       Get(DEFAULT_LOAN_TYPES[k], "id") = Get(loan, "id")}
           defaultLoan == IF found = {} THEN JUndefined
                          ELSE DEFAULT_LOAN_TYPES[Minimum(found)]
       IN  JObject([id |-> Get(loan, "id"), name |-> Get(loan, "name"),
                    interestRate |-> IF Truthy(Get(defaultLoan, "interestRate"))
                                     THEN Get(defaultLoan, "interestRate")
                                     ELSE JNumber(DInt(10)),
                    tenure |-> IF Truthy(Get(defaultLoan, "tenure"))
                               THEN Get(defaultLoan, "tenure")
                               ELSE JNumber(DInt(60))])
  ELSE LoanType(<<"u", "n", "k", "n", "o", "w", "n", "-">> \o Call("NumberToString", <<now>>),
                <<"U", "n", "k", "n", "o", "w", "n", " ", "L", "o", "a", "n">>,
                DInt(10), DInt(60))

\* window tells whether there is a window (a browser), item is what the
\* store holds.  What is thrown inside (by JSON.parse on a text that is not
\* JSON, by migrateLoanType on null) is caught and the defaults returned.
loadLoanTypesUnchecked(window, item, now) ==
  IF ~window THEN DEFAULT_LOAN_TYPES
  ELSE IF item = NoItem \/ item = Text(<<>>) THEN DEFAULT_LOAN_TYPES
  ELSE IF "text" \in DOMAIN item THEN DEFAULT_LOAN_TYPES
  ELSE LET parsed == item.json
       IN  IF "items" \in DOMAIN parsed /\ Len(parsed.items) > 0
           THEN IF \E k \in 1..Len(parsed.items) : parsed.items[k] = JNull
                THEN DEFAULT_LOAN_TYPES
                ELSE [k \in 1..Len(parsed.items) |->
                        Call("migrateLoanType", <<parsed.items[k], now>>)]
           ELSE DEFAULT_LOAN_TYPES

loadLoanTypes(window, item, now) ==
  IF ~window THEN DEFAULT_LOAN_TYPES
  ELSE IF item = NoItem \/ item = Text(<<>>) THEN DEFAULT_LOAN_TYPES
  ELSE IF "text" \in DOMAIN item THEN DEFAULT_LOAN_TYPES
  ELSE LET parsed == item.json
       IN  IF "items" \in DOMAIN parsed /\ Len(parsed.items) > 0
           THEN IF \E k \in 1..Len(parsed.items) : parsed.items[k] = JNull
                THEN DEFAULT_LOAN_TYPES
                ELSE LET migratedTypes == [k \in 1..Len(parsed.items) |->
                                             Call("migrateLoanType", <<parsed.items[k], now>>)]
                     IN  IF isValidLoanTypesArray(migratedTypes) THEN migratedTypes
                         ELSE DEFAULT_LOAN_TYPES
           ELSE DEFAULT_LOAN_TYPES

\* the item of the store after saveLoanTypes(loanTypes)
saveLoanTypes(window, item, loanTypes) ==
  IF ~window THEN item ELSE JsonStringify(JArray(loanTypes))

(***************************************************************************)
(* The hook useEMICalculator: the default form and the values it derives   *)
(* from the form on a render                                               *)
(***************************************************************************)
DEFAULT_FORM_DATA ==
  [salary |-> <<"8", "0", "0", "0", "0">>, rent |-> <<>>, other |-> <<>>,
   projectIncome |-> <<>>, existingLoans |-> <<>>,
   totalProjectCost |-> <<"1", "8", "0", "0", "0", "0", "0">>, equityPercentage |-> <<"1", "0">>,
   rate |-> <<"9", ".", "0">>, repaymentPeriod |-> <<"2", "4", "0">>, gracePeriod |-> <<>>]

derivedValues(formData) ==
  LET projectCost == Call("getNumericValue", <<formData.totalProjectCost>>)
      equity == Call("getNumericValue", <<formData.equityPercentage>>)
  IN  [totalProjectCost |-> projectCost,
       equityPercentage |-> equity,
       bankFinanceAmount |-> Call("calculateBankFinanceAmount", <<projectCost, equity>>),
       equityAmount |-> Call("calculateEquityAmount", <<projectCost, equity>>)]

\* the state of the hook before the effect of the mount has run
InitialHook ==
  [formData |-> DEFAULT_FORM_DATA, loanTypes |-> <<>>,
   selectedLoanType |-> <<"h", "o", "m", "e", "-", "l", "o", "a", "n">>,
   isAfterGrace |-> FALSE, scenario |-> "normal", mounted |-> FALSE]

updateFormData(formData, field, value) == [formData EXCEPT ![field] = value]

\* the state of the hook after resetForm
resetForm(state) ==
  [state EXCEPT !.formData = DEFAULT_FORM_DATA, !.isAfterGrace = FALSE,
                !.scenario = "normal", !.selectedLoanType = <<"h", "o", "m", "e", "-", "l", "o", "a", "n">>]

\* the messages by field; a later message for a field replaces an earlier
validationErrors(formData) ==
  LET value(field) == Call("getNumericValue", <<formData[field]>>)
      required(field) == formData[field] = <<>> \/ NumLte(value(field), DInt(0))
      equity == value("equityPercentage")
      rate == value("rate")
      tenure == value("repaymentPeriod")
      gracePeriod == value("gracePeriod")
      errors ==
        (IF required("salary")
         THEN {<<"salary", "Salary is required and must be greater than 0">>} ELSE {})
        \cup (IF required("totalProjectCost")
              THEN {<<"totalProjectCost",
                      "Total project cost is required and must be greater than 0">>}
              ELSE {})
        \cup (IF NumGt(rate, DInt(50))
              THEN {<<"rate", "Interest rate seems unusually high">>}
              ELSE IF required("rate")
              THEN {<<"rate", "Interest rate is required and must be greater than 0">>}
              ELSE {})
        \cup (IF NumGt(tenure, DInt(600))
              THEN {<<"repaymentPeriod", "Repayment period cannot exceed 600 months">>}
              ELSE IF required("repaymentPeriod")
              THEN {<<"repaymentPeriod",
                      "Repayment period is required and must be greater than 0">>}
              ELSE {})
        \cup (IF NumGt(DInt(0), equity) \/ NumGt(equity, DInt(100))
              THEN {<<"equityPercentage", "Equity percentage must be between 0 and 100">>}
              ELSE {})
        \cup (IF NumGt(gracePeriod, tenure)
              THEN {<<"gracePeriod", "Grace period cannot be longer than repayment period">>}
              ELSE {})
  IN  [field \in {e[1] : e \in errors} |-> (CHOOSE e \in errors : e[1] = field)[2]]

\* the form taken for valid whatever its grace period
isFormValidIgnoringGrace(formData) ==
  DOMAIN Call("validationErrors", <<formData>>) \subseteq {"gracePeriod"}

isFormValid(formData) == DOMAIN Call("validationErrors", <<formData>>) = {}

(***************************************************************************)
(* The component EMICalculator: what its handlers make of the form          *)
(***************************************************************************)
\* the two updates each made on the form of the render, so that the second
\* takes the place of the first
handleLoanTypeChangeLastUpdateWins(state, loanTypeId) ==
  LET found == {k \in 1..Len(state.loanTypes) :
                  Get(state.loanTypes[k], "id") = JString(loanTypeId)}
      selectedLoan == state.loanTypes[Minimum(found)]
      tenure == Call("NumberToString", <<Get(selectedLoan, "tenure").number>>)
  IN  IF found = {} THEN [state EXCEPT !.selectedLoanType = loanTypeId]
      ELSE [state EXCEPT !.selectedLoanType = loanTypeId,
                         !.formData = updateFormData(@, "repaymentPeriod", tenure)]

\* the state of the hook after handleLoanTypeChange(loanTypeId)
handleLoanTypeChange(state, loanTypeId) ==
  LET found == {k \in 1..Len(state.loanTypes) :
                  Get(state.loanTypes[k], "id") = JString(loanTypeId)}
      selectedLoan == state.loanTypes[Minimum(found)]
      rate == Call("NumberToString", <<Get(selectedLoan, "interestRate").number>>)
      tenure == Call("NumberToString", <<Get(selectedLoan, "tenure").number>>)
  IN  IF found = {} THEN [state EXCEPT !.selectedLoanType = loanTypeId]
      ELSE [state EXCEPT !.selectedLoanType = loanTypeId,
                         !.formData = updateFormData(updateFormData(@, "rate", rate),
                                                     "repaymentPeriod", tenure)]

getMonthsRemainder(months) ==
  LET totalMonths == OrZero(Call("ParseFloat", <<months>>))
  IN  Call("NumberToString", <<Call("NumRemainder", <<totalMonths, DInt(12)>>)>>)

\* the form after handleYearsChange(years)
handleYearsChange(formData, years) ==
  LET numYears == OrZero(Call("ParseFloat", <<years>>))
      remainderMonths ==
        OrZero(Call("ParseFloat", <<Call("getMonthsRemainder", <<formData.repaymentPeriod>>)>>))
      totalMonths ==
        Call("NumPlus", <<Call("NumTimes", <<numYears, DInt(12)>>), remainderMonths>>)
  IN  updateFormData(formData, "repaymentPeriod", Call("NumberToString", <<totalMonths>>))

\* the form after handleMonthsChange(months)
handleMonthsChange(formData, months) ==
  LET numMonths == OrZero(Call("ParseFloat", <<months>>))
      years == OrZero(Call("MathFloor",
                 <<Call("NumDividedBy",
                     <<Call("ParseFloat", <<formData.repaymentPeriod>>), DInt(12)>>)>>))
      totalMonths == Call("NumPlus", <<Call("NumTimes", <<years, DInt(12)>>), numMonths>>)
  IN  updateFormData(formData, "repaymentPeriod", Call("NumberToString", <<totalMonths>>))

(***************************************************************************)
(* The component EditLoanTypes: the editor of the loan presets.  Its state *)
(* is a record of what its useState calls hold; a handler gives the state  *)
(* after it.  An error is the text of the message, "" for none.            *)
(***************************************************************************)
\* the defaults of the editor: the ids, names and rates of the defaults of
\* the service, with tenures of its own
defaultLoanTypes ==
  LET tenures == <<240, 84, 60, 120, 180>>
  IN  [k \in 1..Len(DEFAULT_LOAN_TYPES) |->
         JObject([DEFAULT_LOAN_TYPES[k].fields EXCEPT !.tenure = JNumber(DInt(tenures[k]))])]

\* isValidLoanType of the editor: no upper bound on the tenure
EditorIsValidLoanType(loanType) ==
  /\ TypeOf(loanType) = "object"
  /\ loanType # JNull
  /\ TypeOf(Get(loanType, "id")) = "string"
  /\ TypeOf(Get(loanType, "name")) = "string"
  /\ TypeOf(Get(loanType, "interestRate")) = "number"
  /\ TypeOf(Get(loanType, "tenure")) = "number"
  /\ Len(Trim(Get(loanType, "id").string)) > 0
  /\ Len(Trim(Get(loanType, "name").string)) > 0
  /\ NumGt(Get(loanType, "interestRate").number, DInt(0))
  /\ NumLte(Get(loanType, "interestRate").number, DInt(100))
  /\ NumGt(Get(loanType, "tenure").number, DInt(0))

\* value || other
OrElse(value, other) == IF Truthy(value) THEN value ELSE other

\* migrateLoanType of the editor; now is what Date.now() gives.  The
\* operator has no value for null, where the code throws a TypeError on
\* reading loan.id.
EditorMigrateLoanType(loan, now) ==
  IF EditorIsValidLoanType(loan) THEN loan
  ELSE IF TypeOf(loan) = "object" /\ Truthy(Get(loan, "id")) /\ Truthy(Get(loan, "name"))
  THEN LET found == {k \in 1..Len(defaultLoanTypes) :
                       Get(defaultLoanTypes[k], "id") = Get(loan, "id")}
           defaultLoan == IF found = {} THEN JUndefined ELSE defaultLoanTypes[Minimum(found)]
       IN  JObject([id |-> Get(loan, "id"), name |-> Get(loan, "name"),
                    interestRate |-> OrElse(OrElse(Get(loan, "interestRate"),
                                                   Get(defaultLoan, "interestRate")),
                                            JNumber(DInt(10))),
                    tenure |-> OrElse(OrElse(OrElse(Get(loan, "tenure"),
                                                    Get(loan, "tenureMonths")),
                                             Get(defaultLoan, "tenure")),
                                      JNumber(DInt(240)))])
  ELSE LoanType(<<"u", "n", "k", "n", "o", "w", "n", "-">> \o Call("NumberToString", <<now>>),
                <<"U", "n", "k", "n", "o", "w", "n", " ", "L", "o", "a", "n">>,
                DInt(10), DInt(240))

\* what useState holds at the first render, with the values of loanTypes
\* and isLoading that the last render has seen (rendered: the effects of a
\* render read these), the effects still to run after the last render, and
\* the number of events handled
InitialEditor ==
  [loanTypes |-> <<>>, isLoading |-> TRUE, newLoanName |-> <<>>,
   newInterestRate |-> DInt(10), newTenure |-> DInt(240), editingLoan |-> JNull,
   showAddForm |-> FALSE, error |-> "",
   rendered |-> [loanTypes |-> <<>>, isLoading |-> TRUE],
   effects |-> <<"load", "save">>, events |-> 0]

\* the effect of the mount (lines 275-301): the list it sets and the item of
\* the store after it.  nows[k] is what Date.now() gives for the k-th
\* element.  What is thrown inside (by JSON.parse, by migrateLoanType on
\* null) is caught, and the defaults are set and written.
loadEffect(item, nows) ==
  LET defaults == [loanTypes |-> defaultLoanTypes,
                   item |-> JsonStringify(JArray(defaultLoanTypes))]
  IN  IF item = NoItem \/ item = Text(<<>>) THEN defaults
      ELSE IF "text" \in DOMAIN item THEN defaults
      ELSE LET parsed == item.json
           IN  IF "items" \in DOMAIN parsed /\ Len(parsed.items) > 0
               THEN IF \E k \in 1..Len(parsed.items) : parsed.items[k] = JNull
                    THEN defaults
                    ELSE [loanTypes |-> [k \in 1..Len(parsed.items) |->
                                           EditorMigrateLoanType(parsed.items[k], nows[k])],
                          item |-> item]
               ELSE defaults

\* the effect on loanTypes and isLoading (lines 304-308), run after a render
\* that has seen the list loanTypes: the item of the store after it
saveEffect(item, loanTypes, isLoading) ==
  IF ~isLoading /\ Len(loanTypes) > 0 THEN JsonStringify(JArray(loanTypes)) ELSE item

\* String.prototype.toLowerCase, for the letters A to Z
UpperCase == <<"A", "B", "C", "D", "E", "F", "G", "H", "I", "J", "K", "L", "M",
               "N", "O", "P", "Q", "R", "S", "T", "U", "V", "W", "X", "Y", "Z">>
LowerCase == <<"a", "b", "c", "d", "e", "f", "g", "h", "i", "j", "k", "l", "m",
               "n", "o", "p", "q", "r", "s", "t", "u", "v", "w", "x", "y", "z">>
toLowerCase(str) ==
  [i \in 1..Len(str) |->
     IF \E k \in 1..Len(UpperCase) : UpperCase[k] = str[i]
     THEN LowerCase[CHOOSE k \in 1..Len(UpperCase) : UpperCase[k] = str[i]]
     ELSE str[i]]

\* generateId: the name in lower case, each run of blanks made one hyphen,
\* what is no letter, digit or hyphen left out, then a hyphen and Date.now()
generateId(name, now) ==
  LET lower == toLowerCase(name)
      hyphened == [i \in 1..Len(lower) |->
                     IF lower[i] # " " THEN lower[i]
                     ELSE IF i > 1 /\ lower[i - 1] = " " THEN "" ELSE "-"]
      Kept(c) == \/ \E k \in 1..Len(LowerCase) : LowerCase[k] = c
                 \/ c \in {"0", "1", "2", "3", "4", "5", "6", "7", "8", "9", "-"}
  IN  SelectSeq(hyphened, Kept) \o <<"-">> \o Call("NumberToString", <<now>>)

\* validateLoanData: the error it sets, "" where it returns true.
\* excludeId is the id of the entry edited, undefined for a new entry.
validateLoanData(loanTypes, name, interestRate, tenure, excludeId) ==
  IF Trim(name) = <<>> THEN "Loan name cannot be empty"
  ELSE IF Len(Trim(name)) < 2 THEN "Loan name must be at least 2 characters long"
  ELSE IF \E k \in 1..Len(loanTypes) :
            /\ Get(loanTypes[k], "id") # excludeId
            /\ toLowerCase(Get(loanTypes[k], "name").string) = toLowerCase(Trim(name))
  THEN "A loan type with this name already exists"
  ELSE IF NumLte(interestRate, DInt(0)) \/ NumGt(interestRate, DInt(100))
  THEN "Interest rate must be between 0.01% and 100%"
  ELSE IF NumLte(tenure, DInt(0)) THEN "Tenure must be greater than 0 months"
  ELSE ""

handleAddLoan(state, now) ==
  LET error == validateLoanData(state.loanTypes, state.newLoanName, state.newInterestRate,
                                state.newTenure, JUndefined)
      newLoan == LoanType(generateId(state.newLoanName, now), Trim(state.newLoanName),
                          state.newInterestRate, state.newTenure)
  IN  IF error # "" THEN [state EXCEPT !.error = error]
      ELSE [state EXCEPT !.loanTypes = Append(@, newLoan),
                         !.newLoanName = <<>>,
                         !.newInterestRate = DInt(10),
                         !.newTenure = DInt(240),
                         !.showAddForm = FALSE,
                         !.error = ""]

\* confirmed is the answer to confirm(...)
handleDeleteLoan(state, id, confirmed) ==
  IF Len(state.loanTypes) <= 1
  THEN [state EXCEPT !.error = "Cannot delete the last loan type"]
  ELSE IF confirmed
  THEN LET Other(loan) == Get(loan, "id") # id
       IN  [state EXCEPT !.loanTypes = SelectSeq(@, Other), !.error = ""]
  ELSE state

handleStartEdit(state, loan) ==
  [state EXCEPT !.editingLoan = [id |-> Get(loan, "id"), name |-> Get(loan, "name").string,
                                 interestRate |-> Get(loan, "interestRate").number,
                                 tenure |-> Get(loan, "tenure").number],
                !.error = ""]

handleSaveEdit(state) ==
  IF state.editingLoan = JNull THEN state
  ELSE LET editingLoan == state.editingLoan
           error == validateLoanData(state.loanTypes, editingLoan.name,
                                     editingLoan.interestRate, editingLoan.tenure,
                                     editingLoan.id)
       IN  IF error # "" THEN [state EXCEPT !.error = error]
           ELSE [state EXCEPT
                   !.loanTypes =
                     [k \in 1..Len(@) |->
                        IF Get(@[k], "id") = editingLoan.id
                        THEN JObject([@[k].fields EXCEPT
                                        !.name = JString(Trim(editingLoan.name)),
                                        !.interestRate = JNumber(editingLoan.interestRate),
                                        !.tenure = JNumber(editingLoan.tenure)])
                        ELSE @[k]],
                   !.editingLoan = JNull,
                   !.error = ""]

handleCancelEdit(state) == [state EXCEPT !.editingLoan = JNull, !.error = ""]

handleCancelAdd(state) ==
  [state EXCEPT !.showAddForm = FALSE, !.newLoanName = <<>>, !.newInterestRate = DInt(10),
                !.newTenure = DInt(240), !.error = ""]

\* the tenure after the years, or the months, of a tenure have been typed
TenureWithYears(tenure, years) ==
  LET numYears == OrZero(Call("ParseFloat", <<years>>))
      remainderMonths == Call("NumRemainder", <<tenure, DInt(12)>>)
  IN  Call("NumPlus", <<Call("NumTimes", <<numYears, DInt(12)>>), remainderMonths>>)

TenureWithMonths(tenure, months) ==
  LET numMonths == OrZero(Call("ParseFloat", <<months>>))
      years == Call("MathFloor", <<Call("NumDividedBy", <<tenure, DInt(12)>>)>>)
  IN  Call("NumPlus", <<Call("NumTimes", <<years, DInt(12)>>), numMonths>>)

handleNewTenureYearsChange(state, years) ==
  [state EXCEPT !.newTenure = TenureWithYears(@, years)]

handleNewTenureMonthsChange(state, months) ==
  [state EXCEPT !.newTenure = TenureWithMonths(@, months)]

handleEditTenureYearsChange(state, years) ==
  IF state.editingLoan = JNull THEN state
  ELSE [state EXCEPT !.editingLoan.tenure = TenureWithYears(@, years)]

handleEditTenureMonthsChange(state, months) ==
  IF state.editingLoan = JNull THEN state
  ELSE [state EXCEPT !.editingLoan.tenure = TenureWithMonths(@, months)]

\* what the change of a rate field sets: e.target.value === '' ? 0 :
\* parseFloat(e.target.value) || 0
TypedRate(text) == IF text = <<>> THEN DInt(0) ELSE OrZero(Call("ParseFloat", <<text>>))

(***************************************************************************)
(* The application of an operator of this module to its arguments.  The    *)
(* operators above apply one another through Call, so that each of them    *)
(* is one node of the call graph however many places apply it.  As in      *)
(* JavaScript, the arguments are computed before the operator is applied.  *)
(***************************************************************************)
Call(name, args) ==
  CASE Len(args) = 0 -> args
    [] name = "NatCmp" -> NatCmp(args[1], args[2])
    [] name = "NatAdd" -> NatAdd(args[1], args[2])
    [] name = "NatSub" -> NatSub(args[1], args[2])
    [] name = "NatMulSmall" -> NatMulSmall(args[1], args[2])
    [] name = "NatMulRows" -> NatMulRows(args[1], args[2], args[3], args[4])
    [] name = "NatMulColumn" -> NatMulColumn(args[1], args[2], args[3], args[4], args[5])
    [] name = "NatMulColumns" -> NatMulColumns(args[1], args[2])
    [] name = "NatMul" -> NatMul(args[1], args[2])
    [] name = "NatMulPow10" -> NatMulPow10(args[1], args[2])
    [] name = "NatDivPow10" -> NatDivPow10(args[1], args[2])
    [] name = "NatTrailingZeros" -> NatTrailingZeros(args[1])
    [] name = "NatQuotLimb" -> NatQuotLimb(args[1], args[2], args[3], args[4])
    [] name = "NatDivModAt" -> NatDivModAt(args[1], args[2], args[3], args[4], args[5], args[6],
        args[7])
    [] name = "NatDivMod" -> NatDivMod(args[1], args[2])
    [] name = "NatPow" -> NatPow(args[1], args[2])
    [] name = "NatPowSmall" -> NatPowSmall(args[1], args[2], args[3])
    [] name = "DFin" -> DFin(args[1], args[2], args[3])
    [] name = "DRound" -> DRound(args[1], args[2], args[3], args[4])
    [] name = "DRoundEven" -> DRoundEven(args[1], args[2], args[3], args[4])
    [] name = "DTrunc" -> DTrunc(args[1], args[2], args[3], args[4])
    [] name = "MagCmp" -> MagCmp(args[1], args[2])
    [] name = "DecCmp" -> DecCmp(args[1], args[2])
    [] name = "DecGt" -> DecGt(args[1], args[2])
    [] name = "DecLt" -> DecLt(args[1], args[2])
    [] name = "DecGte" -> DecGte(args[1], args[2])
    [] name = "DecLte" -> DecLte(args[1], args[2])
    [] name = "DecEq" -> DecEq(args[1], args[2])
    [] name = "DecMin" -> DecMin(args[1], args[2])
    [] name = "DecPlusFin" -> DecPlusFin(args[1], args[2], args[3])
    [] name = "DecPlus" -> DecPlus(args[1], args[2])
    [] name = "DecMinus" -> DecMinus(args[1], args[2])
    [] name = "DecMulFin" -> DecMulFin(args[1], args[2], args[3])
    [] name = "DecMul" -> DecMul(args[1], args[2])
    [] name = "DecDivFin" -> DecDivFin(args[1], args[2], args[3])
    [] name = "DecDiv" -> DecDiv(args[1], args[2])
    [] name = "Pow2" -> Pow2(args[1])
    [] name = "Pow5" -> Pow5(args[1])
    [] name = "Scaled" -> Scaled(args[1], args[2])
    [] name = "BitsAbove" -> BitsAbove(args[1], args[2])
    [] name = "BinExp" -> BinExp(args[1])
    [] name = "Nearest" -> Nearest(args[1])
    [] name = "DoubleValue" -> DoubleValue(args[1])
    [] name = "DecPow2" -> DecPow2(args[1])
    [] name = "Distance" -> Distance(args[1], args[2])
    [] name = "ReadsAs" -> ReadsAs(args[1], args[2], args[3])
    [] name = "DigitsBelow" -> DigitsBelow(args[1], args[2])
    [] name = "DigitsAbove" -> DigitsAbove(args[1], args[2])
    [] name = "Shortest" -> Shortest(args[1], args[2], args[3])
    [] name = "RoundTrips" -> RoundTrips(args[1])
    [] name = "ToNumber" -> ToNumber(args[1])
    [] name = "IsInteger" -> IsInteger(args[1])
    [] name = "IsOddInteger" -> IsOddInteger(args[1])
    [] name = "DecToInt" -> DecToInt(args[1])
    [] name = "MathPowSpecial" -> MathPowSpecial(args[1], args[2])
    [] name = "TruncateWords" -> TruncateWords(args[1], args[2], args[3])
    [] name = "IntPow" -> IntPow(args[1], args[2], args[3])
    [] name = "DecPow" -> DecPow(args[1], args[2])
    [] name = "DigitRun" -> DigitRun(args[1], args[2])
    [] name = "BlankRun" -> BlankRun(args[1], args[2])
    [] name = "StartsWith" -> StartsWith(args[1], args[2], args[3])
    [] name = "IntOfDigits" -> IntOfDigits(args[1], args[2], args[3])
    [] name = "NatOfDigits" -> NatOfDigits(args[1], args[2], args[3])
    [] name = "ParseFloat" -> ParseFloat(args[1])
    [] name = "Exact" -> Exact(args[1])
    [] name = "NumTimes" -> NumTimes(args[1], args[2])
    [] name = "NumPlus" -> NumPlus(args[1], args[2])
    [] name = "NumRemainder" -> NumRemainder(args[1], args[2])
    [] name = "NumDividedBy" -> NumDividedBy(args[1], args[2])
    [] name = "MathFloor" -> MathFloor(args[1])
    [] name = "DigitString" -> DigitString(args[1])
    [] name = "NumberToString" -> NumberToString(args[1])
    [] name = "NumGt" -> NumGt(args[1], args[2])
    [] name = "calculateInDecimal" -> calculateInDecimal(args[1], args[2], args[3])
    [] name = "isValidLoanType" -> isValidLoanType(args[1])
    [] name = "validationErrors" -> validationErrors(args[1])
    [] name = "isFormValid" -> isFormValid(args[1])
    [] name = "loadEffect" -> loadEffect(args[1], args[2])
    [] name = "saveEffect" -> saveEffect(args[1], args[2], args[3])
    [] name = "handleAddLoan" -> handleAddLoan(args[1], args[2])
    [] name = "handleDeleteLoan" -> handleDeleteLoan(args[1], args[2], args[3])
    [] name = "handleStartEdit" -> handleStartEdit(args[1], args[2])
    [] name = "handleSaveEdit" -> handleSaveEdit(args[1])
    [] name = "handleCancelEdit" -> handleCancelEdit(args[1])
    [] name = "handleCancelAdd" -> handleCancelAdd(args[1])
    [] name = "handleNewTenureYearsChange" -> handleNewTenureYearsChange(args[1], args[2])
    [] name = "handleNewTenureMonthsChange" -> handleNewTenureMonthsChange(args[1], args[2])
    [] name = "handleEditTenureYearsChange" -> handleEditTenureYearsChange(args[1], args[2])
    [] name = "handleEditTenureMonthsChange" -> handleEditTenureMonthsChange(args[1], args[2])
    [] name = "TypedRate" -> TypedRate(args[1])
    [] name = "validateLoanData" -> validateLoanData(args[1], args[2], args[3], args[4], args[5])
    [] name = "generateId" -> generateId(args[1], args[2])
    [] name = "resetForm" -> resetForm(args[1])
    [] name = "handleLoanTypeChange" -> handleLoanTypeChange(args[1], args[2])
    [] name = "getMonthsRemainder" -> getMonthsRemainder(args[1])
    [] name = "handleYearsChange" -> handleYearsChange(args[1], args[2])
    [] name = "handleMonthsChange" -> handleMonthsChange(args[1], args[2])
    [] name = "migrateLoanType" -> migrateLoanType(args[1], args[2])
    [] name = "loadLoanTypes" -> loadLoanTypes(args[1], args[2], args[3])
    [] name = "saveLoanTypes" -> saveLoanTypes(args[1], args[2], args[3])
    [] name = "getNumericValue" -> getNumericValue(args[1])
    [] name = "convertToNumericFormData" -> convertToNumericFormData(args[1])
    [] name = "BracketTax" -> BracketTax(args[1], args[2], args[3])
    [] name = "TaxOverBrackets" -> TaxOverBrackets(args[1], args[2], args[3], args[4])
    [] name = "calculateIncomeTax" -> calculateIncomeTax(args[1])
    [] name = "calculateEMI" -> calculateEMI(args[1], args[2], args[3])
    [] name = "calculateGracePeriodPayment" -> calculateGracePeriodPayment(args[1], args[2])
    [] name = "applyScenarioMultipliers" -> applyScenarioMultipliers(args[1], args[2])
    [] name = "calculateBankFinanceAmount" -> calculateBankFinanceAmount(args[1], args[2])
    [] name = "calculateEquityAmount" -> calculateEquityAmount(args[1], args[2])
    [] name = "calculate" -> calculate(args[1], args[2], args[3])
    [] name = "performCalculations" -> performCalculations(args[1], args[2], args[3])
    [] name = "derivedValues" -> derivedValues(args[1])

(***************************************************************************)
(* The service and its callers.  A caller makes its calls in order; the    *)
(* service is static and JavaScript runs one call at a time, so a call     *)
(* runs from its arguments to its return value in one step.                *)
(***************************************************************************)
vars == <<taxBrackets, calls, returns, held, localStorage, hook, editor>>

\* the first n elements of a sequence of samples, as a set
First(samples, n) == {samples[i] : i \in 1..Min(n, Len(samples))}

Position == Len(returns) + 1
Calling(op) == Position <= Len(calls) /\ calls[Position].op = op
Return(value) ==
  /\ returns' = Append(returns, value)
  /\ UNCHANGED <<taxBrackets, calls, held, localStorage, hook, editor>>

InitWith(scripts) ==
  /\ taxBrackets = InitialTaxBrackets
  /\ calls \in scripts
  /\ returns = <<>>
  /\ held = <<>>
  /\ localStorage = NoItem
  /\ hook = InitialHook
  /\ editor = InitialEditor

\* the calls of the service and of the hook that a caller can make
IncomeTaxCall(annualIncome) ==
  [op |-> "calculateIncomeTax", annualIncome |-> annualIncome]
EMICall(principal, rate, tenure) ==
  [op |-> "calculateEMI", principal |-> principal, rate |-> rate, tenure |-> tenure]
BankFinanceCall(totalProjectCost, equityPercentage) ==
  [op |-> "calculateBankFinanceAmount", totalProjectCost |-> totalProjectCost,
   equityPercentage |-> equityPercentage]
EquityCall(totalProjectCost, equityPercentage) ==
  [op |-> "calculateEquityAmount", totalProjectCost |-> totalProjectCost,
   equityPercentage |-> equityPercentage]
PerformCall(formData, scenario, isAfterGrace) ==
  [op |-> "performCalculations", formData |-> formData, scenario |-> scenario,
   isAfterGrace |-> isAfterGrace]
ScenarioCall(formData, scenario) ==
  [op |-> "applyScenarioMultipliers", formData |-> formData, scenario |-> scenario]
ValidationCall(formData) == [op |-> "validation", formData |-> formData]
NumericValueCall(value) == [op |-> "getNumericValue", value |-> value]
HookCall(formData, scenario) ==
  [op |-> "useEMICalculator", formData |-> formData, scenario |-> scenario]

CallGetNumericValue ==
  /\ Calling("getNumericValue")
  /\ Return(Call("getNumericValue", <<calls[Position].value>>))

CallCalculateIncomeTax ==
  /\ Calling("calculateIncomeTax")
  /\ Return(Call("calculateIncomeTax", <<calls[Position].annualIncome>>))

CallCalculateEMI ==
  /\ Calling("calculateEMI")
  /\ Return(Call("calculateEMI", <<calls[Position].principal, calls[Position].rate,
                                   calls[Position].tenure>>))

CallCalculateBankFinanceAmount ==
  /\ Calling("calculateBankFinanceAmount")
  /\ Return(Call("calculateBankFinanceAmount", <<calls[Position].totalProjectCost,
                                                 calls[Position].equityPercentage>>))

CallCalculateEquityAmount ==
  /\ Calling("calculateEquityAmount")
  /\ Return(Call("calculateEquityAmount", <<calls[Position].totalProjectCost,
                                            calls[Position].equityPercentage>>))

CallPerformCalculations ==
  /\ Calling("performCalculations")
  /\ Return(Call("performCalculations", <<calls[Position].formData, calls[Position].scenario,
                                          calls[Position].isAfterGrace>>))

CallApplyScenarioMultipliers ==
  /\ Calling("applyScenarioMultipliers")
  /\ Return(Call("applyScenarioMultipliers", <<calls[Position].formData,
                                               calls[Position].scenario>>))

\* the validation of the hook for the form it holds
CallValidation ==
  /\ Calling("validation")
  /\ Return([isFormValid |-> Call("isFormValid", <<calls[Position].formData>>),
             validationErrors |-> Call("validationErrors", <<calls[Position].formData>>)])

\* the hook on a render: its state (the form, the scenario) with the values
\* derived from the form
useEMICalculator(formData, scenario) ==
  LET derived == Call("derivedValues", <<formData>>)
  IN  [formData |-> formData, scenario |-> scenario,
       bankFinanceAmount |-> derived.bankFinanceAmount,
       equityAmount |-> derived.equityAmount,
       totalProjectCost |-> derived.totalProjectCost,
       equityPercentage |-> derived.equityPercentage]

CallUseEMICalculator ==
  /\ Calling("useEMICalculator")
  /\ Return(useEMICalculator(calls[Position].formData, calls[Position].scenario))

(***************************************************************************)
(* getTaxBrackets and what a caller can do with the array it returns.  The *)
(* array is new; its elements are the bracket objects of the table.  An    *)
(* element of a held array is a reference: [live |-> k] is the k-th        *)
(* bracket object of the table, [own |-> b] an object the caller made.     *)
(***************************************************************************)
GetTaxBracketsCall == [op |-> "getTaxBrackets"]
ReplaceElementCall(array, index, bracket) ==
  [op |-> "replaceElement", array |-> array, index |-> index, bracket |-> bracket]
SetFieldCall(array, index, field, value) ==
  [op |-> "setField", array |-> array, index |-> index, field |-> field, value |-> value]

\* [...this.taxBrackets]: a new array of the same elements
getTaxBrackets == [k \in 1..Len(taxBrackets) |-> [live |-> k]]

\* the object a reference stands for
Deref(reference) ==
  IF "live" \in DOMAIN reference THEN taxBrackets[reference.live] ELSE reference.own

\* the caller sees the brackets the new array refers to
CallGetTaxBrackets ==
  /\ Calling("getTaxBrackets")
  /\ held' = Append(held, getTaxBrackets)
  /\ returns' = Append(returns, [k \in 1..Len(getTaxBrackets) |-> Deref(getTaxBrackets[k])])
  /\ UNCHANGED <<taxBrackets, calls, localStorage, hook, editor>>

\* brackets[index] = bracket, on an array the caller holds
ReplaceElement ==
  /\ Calling("replaceElement")
  /\ calls[Position].array \in DOMAIN held
  /\ calls[Position].index \in DOMAIN held[calls[Position].array]
  /\ held' = [held EXCEPT ![calls[Position].array][calls[Position].index] =
                            [own |-> calls[Position].bracket]]
  /\ returns' = Append(returns, calls[Position].bracket)
  /\ UNCHANGED <<taxBrackets, calls, localStorage, hook, editor>>

\* brackets[index].field = value, on an array the caller holds: the write
\* goes to the object the element refers to
SetField ==
  /\ Calling("setField")
  /\ calls[Position].array \in DOMAIN held
  /\ calls[Position].index \in DOMAIN held[calls[Position].array]
  /\ LET step      == calls[Position]
         reference == held[step.array][step.index]
     IN  IF "live" \in DOMAIN reference
         THEN /\ taxBrackets' = [taxBrackets EXCEPT ![reference.live][step.field] = step.value]
              /\ UNCHANGED held
         ELSE /\ held' = [held EXCEPT ![step.array][step.index] =
                                        [own |-> [reference.own EXCEPT ![step.field] = step.value]]]
              /\ UNCHANGED taxBrackets
  /\ returns' = Append(returns, calls[Position].value)
  /\ UNCHANGED <<calls, localStorage, hook, editor>>

\* the calls of LoanService
LoadLoanTypesCall(window, now) == [op |-> "loadLoanTypes", window |-> window, now |-> now]
SaveLoanTypesCall(window, loanTypes) ==
  [op |-> "saveLoanTypes", window |-> window, loanTypes |-> loanTypes]

CallLoadLoanTypes ==
  /\ Calling("loadLoanTypes")
  /\ Return(Call("loadLoanTypes", <<calls[Position].window, localStorage, calls[Position].now>>))

CallSaveLoanTypes ==
  /\ Calling("saveLoanTypes")
  /\ localStorage' = Call("saveLoanTypes", <<calls[Position].window, localStorage,
                                              calls[Position].loanTypes>>)
  /\ returns' = Append(returns, JUndefined)
  /\ UNCHANGED <<taxBrackets, calls, held, hook, editor>>

\* ids and a name of presets, for the samples
HOME == <<"h", "o", "m", "e", "-", "l", "o", "a", "n">>
CAR == <<"c", "a", "r", "-", "l", "o", "a", "n">>
GOLD == <<"g", "o", "l", "d">>
GOLDNAME == <<"G", "o", "l", "d", " ", "L", "o", "a", "n">>

\* the decimal of a natural c that is no multiple of ten
Whole(c) == [t |-> "fin", s |-> 1, c |-> c, e |-> 0]

\* annual incomes: the bracket bounds and their neighbours, the cap of the
\* open bracket and incomes beyond it
IncomeSamples ==
  << DInt(0), DInt(720000), DInt(1200000), DInt(960000), Lit(72000001, -2),
     DInt(1200001), DInt(1800000), DInt(2400000), DInt(2400001),
     Whole(MaxSafeInteger), Whole(NatAdd(MaxSafeInteger, <<1>>)), Lit(1, 21),
     DInt(1), Lit(123456789, -2) >>

MaxIncomes == 12

Incomes == First(IncomeSamples, MaxIncomes)

\* a caller asking for the tax of two incomes
TaxScripts == {<<IncomeTaxCall(a), IncomeTaxCall(b)>> : a \in Incomes, b \in Incomes}

TaxInit == InitWith(TaxScripts)
TaxNext == CallCalculateIncomeTax
TaxSpec == TaxInit /\ [][TaxNext]_vars

\* principals, yearly rates in percent and tenures in months
PrincipalSamples ==
  << DInt(0), DInt(1620000), DInt(1200000), Lit(180000055, -2), DInt(1), DInt(100),
     Lit(1, -1), DInt(999999) >>
RateSamples == << DInt(0), DInt(9), Lit(725, -2), Lit(1, -27), DInt(12) >>
TenureSamples == << DInt(240), DInt(1), DInt(7), DInt(360), DInt(12) >>

MaxPrincipals == 6
MaxRates == 3
MaxTenures == 3

\* a caller asking for one instalment
EMIScripts ==
  {<<EMICall(p, r, n)>> : p \in First(PrincipalSamples, MaxPrincipals),
                          r \in First(RateSamples, MaxRates),
                          n \in First(TenureSamples, MaxTenures)}

EMIInit == InitWith(EMIScripts)
EMINext == CallCalculateEMI
EMISpec == EMIInit /\ [][EMINext]_vars

\* project costs and equity percentages
CostSamples ==
  << DInt(1800000), DInt(0), Lit(180000055, -2), Lit(123456789, -1), DInt(100),
     Lit(1, -1), Lit(99999999, -2), DInt(7) >>
EquitySamples ==
  << DInt(10), DInt(0), DInt(100), Lit(33333333, -6), DInt(50), Lit(12345, -3),
     Lit(999, -1), DInt(30) >>

MaxCosts == 6
MaxEquities == 6

\* a caller splitting one project cost into the bank's part and the equity
EquityScripts ==
  {<<BankFinanceCall(c, e), EquityCall(c, e)>> : c \in First(CostSamples, MaxCosts),
                                                 e \in First(EquitySamples, MaxEquities)}

EquityInit == InitWith(EquityScripts)
EquityNext == CallCalculateBankFinanceAmount \/ CallCalculateEquityAmount
EquitySpec == EquityInit /\ [][EquityNext]_vars

\* texts a field can hold: nothing, words, numerals, numerals with other
\* characters before or after them
StringSamples ==
  << <<>>, <<"a", "b", "c">>, <<"8", "0", "0", "0", "0">>, <<"1", "2", ".", "5", "x">>,
     <<"9", ".", "0">>, <<"-", "5">>, <<" ", "4", "2">>, <<"0", ".", "1">>,
     <<"1", ",", "0", "0", "0">>, <<"-", "0">>, <<"1", "e", "3">> >>

MaxStrings == 8

Strings == First(StringSamples, MaxStrings)

\* a caller reading two texts
ParseScripts == {<<NumericValueCall(a), NumericValueCall(b)>> : a \in Strings, b \in Strings}

ParseInit == InitWith(ParseScripts)
ParseNext == CallGetNumericValue
ParseSpec == ParseInit /\ [][ParseNext]_vars

\* what a caller does to the first array it has got: writes to a field of
\* an element and replacements of an element
MutationSamples ==
  << SetFieldCall(1, 2, "rate", DInt(50)),
     ReplaceElementCall(1, 2, [min |-> DInt(0), max |-> DInf(1), rate |-> DInt(100)]),
     SetFieldCall(1, 5, "min", DInt(0)),
     ReplaceElementCall(1, 5, [min |-> DInt(2400000), max |-> DInf(1), rate |-> DInt(0)]),
     SetFieldCall(1, 3, "max", DInt(1200000)),
     SetFieldCall(1, 1, "rate", DInt(10)) >>

MaxMutations == 4

Mutations == First(MutationSamples, MaxMutations)

TableIncomes == {DInt(1200000), DInt(2400001)}

\* a caller that asks for a tax and for the table, changes the array it got
\* twice, and asks again
TableScripts ==
  {<<IncomeTaxCall(a), GetTaxBracketsCall, m, n, IncomeTaxCall(a), GetTaxBracketsCall>> :
     a \in TableIncomes, m \in Mutations, n \in Mutations}

TableInit == InitWith(TableScripts)
TableNext == CallCalculateIncomeTax \/ CallGetTaxBrackets \/ ReplaceElement \/ SetField
TableSpec == TableInit /\ [][TableNext]_vars

\* what the store can hold when the presets are loaded, and the lists a
\* caller can save
StoreSamples ==
  << NoItem,
     Text(<<>>),
     Text(<<"{", "o", "o", "p", "s">>),
     JsonText(JNull),
     JsonText(LoanType(GOLD, GOLDNAME, Lit(725, -2), DInt(48))),
     JsonText(JArray(<<>>)),
     JsonText(JArray(<< JObject([id |-> JString(HOME), name |-> JString(GOLDNAME)]),
                        JObject([id |-> JString(GOLD), name |-> JString(GOLDNAME)]) >>)),
     JsonText(JArray(<< LoanType(GOLD, GOLDNAME, Lit(725, -2), DInt(48)),
                        LoanType(CAR, GOLDNAME, DInt(150), DInt(60)) >>)),
     JsonText(JArray(<< LoanType(GOLD, GOLDNAME, Lit(725, -2), DInt(48)), JNull >>)),
     JsonText(JArray(<< JNumber(DInt(5)), JString(GOLD), JArray(<<>>) >>)),
     JsonText(JArray(<< JObject([id |-> JNumber(DInt(7)), name |-> JString(GOLDNAME)]) >>)),
     JsonText(JArray(<< LoanType(GOLD, GOLDNAME, Lit(725, -2), DInt(48)),
                        JObject([id |-> JString(CAR), name |-> JString(<<" ", " ">>)]) >>)),
     JsonText(JArray(<< LoanType(GOLD, GOLDNAME, DInt(5), DInt(0)) >>)),
     JsonText(JArray(<< LoanType(GOLD, GOLDNAME, DInt(100), DInt(1200)),
                        LoanType(CAR, GOLDNAME, Lit(1005, -1), DInt(1201)) >>)),
     JsonText(JArray(<< LoanType(<<" ">>, GOLDNAME, DInt(5), DInt(12)) >>)),
     JsonText(JBoolean(TRUE)) >>

ListSamples ==
  << DEFAULT_LOAN_TYPES,
     << LoanType(GOLD, GOLDNAME, Lit(725, -2), DInt(48)) >>,
     << LoanType(GOLD, GOLDNAME, DNaN, DInt(48)),
        JObject([id |-> JString(CAR), name |-> JString(GOLDNAME),
                 interestRate |-> JUndefined, tenure |-> JNumber(DInt(60))]) >>,
     <<>>,
     << LoanType(HOME, GOLDNAME, DInt(0), DInt(2400)) >> >>

ClockSamples == <<Lit(17, 11), Whole(<<1, 0, 7000, 1>>)>>

MaxStores == 15
MaxLists == 3
MaxClocks == 1

Stores == First(StoreSamples, MaxStores)
Lists == First(ListSamples, MaxLists)
Clocks == First(ClockSamples, MaxClocks)

\* a visit of the page: the presets are loaded, a list is saved, and the
\* presets are loaded again; or the same where the first two steps are taken
\* where there is no window
LoanScripts ==
  {<<LoadLoanTypesCall(w, t), SaveLoanTypesCall(w, l), LoadLoanTypesCall(TRUE, t)>> :
     w \in BOOLEAN, t \in Clocks, l \in Lists}

LoanInit ==
  /\ taxBrackets = InitialTaxBrackets
  /\ calls \in LoanScripts
  /\ returns = <<>>
  /\ held = <<>>
  /\ localStorage \in Stores
  /\ hook = InitialHook
  /\ editor = InitialEditor

LoanNext == CallLoadLoanTypes \/ CallSaveLoanTypes
LoanSpec == LoanInit /\ [][LoanNext]_vars

\* forms a user can have typed: the default form and edits of it
FormSamples ==
  << DEFAULT_FORM_DATA,
     [DEFAULT_FORM_DATA EXCEPT !.totalProjectCost = <<"0">>],
     [DEFAULT_FORM_DATA EXCEPT !.rent = <<"1", "5", "0", "0", "0", ".", "5", "0">>,
                               !.projectIncome = <<"4", "0", "0", "0", "0">>,
                               !.existingLoans = <<"5", "0", "0", "0">>],
     [DEFAULT_FORM_DATA EXCEPT !.equityPercentage = <<"1", "0", "0">>],
     [DEFAULT_FORM_DATA EXCEPT !.rate = <<"0">>],
     [DEFAULT_FORM_DATA EXCEPT !.rate = <<"1", "e", "-", "2", "7">>],
     [DEFAULT_FORM_DATA EXCEPT !.salary = <<"2", "0", "0", "0", "0">>,
                               !.rate = <<"7", ".", "2", "5">>,
                               !.repaymentPeriod = <<"1", "8", "0">>,
                               !.equityPercentage = <<"3", "3", ".", "3">>],
     [DEFAULT_FORM_DATA EXCEPT !.salary = <<"a", "b", "c">>,
                               !.totalProjectCost = <<"-", "5">>,
                               !.repaymentPeriod = <<>>],
     [DEFAULT_FORM_DATA EXCEPT !.salary = <<"2", "5", "0", "0", "0", "0">>,
                               !.projectIncome = <<"1", "0", "0", "0", "0", "0">>,
                               !.totalProjectCost =
                                 <<"1", "2", "3", "4", "5", "6", "7", "8", ".", "9">>,
                               !.equityPercentage = <<"1", "2", ".", "3", "4", "5">>,
                               !.rate = <<"1", "1", ".", "1", "1">>,
                               !.repaymentPeriod = <<"6", "0", "0">>],
     [DEFAULT_FORM_DATA EXCEPT !.totalProjectCost = <<"0">>,
                               !.existingLoans = <<"5", "0", "0", "0">>],
     [DEFAULT_FORM_DATA EXCEPT !.salary = <<"2", "5", "0", "0", "0">>,
                               !.projectIncome = <<"1", "0", "0", "0", "0">>],
     [DEFAULT_FORM_DATA EXCEPT !.salary = <<"3", "0", "0", "0", "0">>,
                               !.rent = <<"1", "0", "0", "0">>,
                               !.other = <<"2", "5", "0">>,
                               !.projectIncome = <<"1", "0", "0", "0", "0">>],
     [DEFAULT_FORM_DATA EXCEPT !.salary = <<"2", "5", "0", "0", "0">>,
                               !.other = <<" ", "1", "2", ".", "5", "x">>],
     [DEFAULT_FORM_DATA EXCEPT !.rent = <<"3", "0", "0", "0", "0">>,
                               !.rate = <<"0">>,
                               !.totalProjectCost = <<"0">>,
                               !.repaymentPeriod = <<"0">>] >>

MaxForms == 12

Forms == First(FormSamples, MaxForms)

\* one render of the calculator: the hook, then the four calculations
Render(formData, scenario) ==
  << HookCall(formData, scenario),
     PerformCall(formData, "normal", FALSE),
     PerformCall(formData, "normal", TRUE),
     PerformCall(formData, "income_reduce", FALSE),
     PerformCall(formData, "income_reduce", TRUE) >>

\* the calculator rendered with a form, and again after the user has picked
\* the other scenario
CalcScripts ==
  {Render(f, "normal") \o Render(f, "income_reduce") : f \in Forms}

CalcInit == InitWith(CalcScripts)
CalcNext == CallUseEMICalculator \/ CallPerformCalculations
CalcSpec == CalcInit /\ [][CalcNext]_vars

\* the multipliers of both scenarios asked for the converted form, then the
\* calculations of the form under both scenarios in one grace state
ScenarioScripts ==
  {<< ScenarioCall(Call("convertToNumericFormData", <<f>>), "normal"),
      ScenarioCall(Call("convertToNumericFormData", <<f>>), "income_reduce"),
      PerformCall(f, "normal", g),
      PerformCall(f, "income_reduce", g) >> : f \in Forms, g \in BOOLEAN}

ScenarioInit == InitWith(ScenarioScripts)
ScenarioNext == CallApplyScenarioMultipliers \/ CallPerformCalculations
ScenarioSpec == ScenarioInit /\ [][ScenarioNext]_vars

\* a form and the same form with another project income, calculated under
\* one scenario during grace and then after grace
ProjectIncomeSamples ==
  << <<>>, <<"1", "0", "0", "0", "0">>, <<"4", "0", "0", "0", "0", ".", "5">> >>

MaxProjectIncomes == 2

ProjectIncomes == First(ProjectIncomeSamples, MaxProjectIncomes)

GraceScripts ==
  {<< PerformCall(f, s, FALSE),
      PerformCall([f EXCEPT !.projectIncome = p], s, FALSE),
      PerformCall(f, s, TRUE),
      PerformCall([f EXCEPT !.projectIncome = p], s, TRUE) >> :
     f \in Forms, s \in {"normal", "income_reduce"}, p \in ProjectIncomes}

GraceInit == InitWith(GraceScripts)
GraceNext == CallPerformCalculations
GraceSpec == GraceInit /\ [][GraceNext]_vars

\* the validation of the default form after two fields have been typed
ValidationSamples ==
  << <<"salary", <<>>>>,
     <<"salary", <<"-", "1", "0", "0">>>>,
     <<"totalProjectCost", <<"0">>>>,
     <<"rate", <<"5", "0">>>>,
     <<"rate", <<"5", "0", ".", "0", "1">>>>,
     <<"rate", <<"0">>>>,
     <<"repaymentPeriod", <<"6", "0", "0">>>>,
     <<"repaymentPeriod", <<"6", "0", "1">>>>,
     <<"repaymentPeriod", <<>>>>,
     <<"equityPercentage", <<"1", "0", "0">>>>,
     <<"equityPercentage", <<"1", "0", "0", ".", "5">>>>,
     <<"equityPercentage", <<"-", "5">>>>,
     <<"equityPercentage", <<"0">>>>,
     <<"gracePeriod", <<"2", "4", "0">>>>,
     <<"gracePeriod", <<"2", "4", "1">>>>,
     <<"salary", <<"a", "b", "c">>>>,
     <<"gracePeriod", <<"6", "0", "1">>>> >>

MaxValidations == 15

Validations == First(ValidationSamples, MaxValidations)

ValidationScripts ==
  {<<ValidationCall(updateFormData(updateFormData(DEFAULT_FORM_DATA, a[1], a[2]), b[1], b[2]))>> :
     a \in Validations, b \in Validations}

ValidationInit == InitWith(ValidationScripts)
ValidationNext == CallValidation
ValidationSpec == ValidationInit /\ [][ValidationNext]_vars

(***************************************************************************)
(* The mounted calculator.  The hook holds the form; an event runs its     *)
(* handler, which sets state of the hook, and the component renders again: *)
(* it asks the four calculations of the form it now holds.  The calls of   *)
(* the last render are kept in calls.                                      *)
(***************************************************************************)
Rerender(state) ==
  /\ hook' = state
  /\ calls' = Render(state.formData, state.scenario)
  /\ returns' = <<>>
  /\ UNCHANGED <<taxBrackets, held, localStorage, editor>>

\* what a user can type into a field of the form, into the years and into
\* the months of the repayment period
EditSamples ==
  << <<"equityPercentage", <<"1", "5", "0">>>>,
     <<"salary", <<>>>>,
     <<"gracePeriod", <<"3", "0", "0">>>>,
     <<"rate", <<"5", "5">>>>,
     <<"totalProjectCost", <<"0">>>>,
     <<"equityPercentage", <<"-", "5">>>> >>
YearSamples == << <<"0">>, <<"5">>, <<"5", "1">>, <<"a", "b", "c">> >>
MonthSamples == << <<"6">>, <<"-", "3", "0", "0">>, <<"1", "1">> >>

MaxEdits == 2
MaxYears == 1
MaxMonths == 1
MaxPresets == 2

Edits == First(EditSamples, MaxEdits)
Years == First(YearSamples, MaxYears)
Months == First(MonthSamples, MaxMonths)

\* the ids a user can pick: those of the first presets of the list, and an
\* id that the default list does not have
PresetIds == {Get(loan, "id").string : loan \in First(hook.loanTypes, MaxPresets)} \cup {GOLD}

\* the store a visit can find: no item, or a list saved on an earlier visit
PresetStores == {NoItem, StoreSamples[8]}

\* the effect of the mount: the presets are loaded
Mounted ==
  /\ ~hook.mounted
  /\ \E now \in Clocks :
       Rerender([hook EXCEPT !.loanTypes = Call("loadLoanTypes", <<TRUE, localStorage, now>>),
                             !.mounted = TRUE])

FieldEdited ==
  /\ hook.mounted
  /\ \E edit \in Edits :
       Rerender([hook EXCEPT !.formData = updateFormData(@, edit[1], edit[2])])

YearsChanged ==
  /\ hook.mounted
  /\ \E years \in Years :
       Rerender([hook EXCEPT !.formData = Call("handleYearsChange", <<@, years>>)])

MonthsChanged ==
  /\ hook.mounted
  /\ \E months \in Months :
       Rerender([hook EXCEPT !.formData = Call("handleMonthsChange", <<@, months>>)])

LoanTypeChanged ==
  /\ hook.mounted
  /\ \E loanTypeId \in PresetIds :
       Rerender(Call("handleLoanTypeChange", <<hook, loanTypeId>>))

\* handleScenarioChange
ScenarioChanged ==
  /\ hook.mounted
  /\ \E newScenario \in {"normal", "income_reduce"} :
       Rerender([hook EXCEPT !.scenario = newScenario])

\* setIsAfterGrace
GraceChanged ==
  /\ hook.mounted
  /\ \E afterGrace \in BOOLEAN : Rerender([hook EXCEPT !.isAfterGrace = afterGrace])

FormReset ==
  /\ hook.mounted
  /\ Rerender(Call("resetForm", <<hook>>))

FormInit ==
  /\ taxBrackets = InitialTaxBrackets
  /\ calls = Render(DEFAULT_FORM_DATA, "normal")
  /\ returns = <<>>
  /\ held = <<>>
  /\ localStorage \in PresetStores
  /\ hook = InitialHook
  /\ editor = InitialEditor

FormNext ==
  \/ Mounted
  \/ FieldEdited
  \/ YearsChanged
  \/ MonthsChanged
  \/ LoanTypeChanged
  \/ ScenarioChanged
  \/ GraceChanged
  \/ FormReset

FormSpec == FormInit /\ [][FormNext]_vars

(***************************************************************************)
(* The mounted editor of the presets.  After the first render the effect   *)
(* of the mount and the effect on the list are to run, in this order; an   *)
(* effect reads the values of the render it belongs to.  After an event    *)
(* the component renders again, and the effect on the list is to run if    *)
(* the handler has set the list.  Effects run before the next event.       *)
(***************************************************************************)
\* what a user can type as a name and as a rate, the stores a visit can
\* find, and what Date.now() can give
NameSamples ==
  << GOLDNAME,
     <<"h", "o", "m", "e", " ", "l", "o", "a", "n">>,
     <<" ", "G", " ">>,
     <<"U", "N", "K", "N", "O", "W", "N", " ", "L", "O", "A", "N">> >>
TypedRateSamples == << <<"0">>, <<"1", "0", "1">>, <<"1", "2", ".", "5">>, <<>> >>
SILVERNAME == <<"S", "i", "l", "v", "e", "r", " ", "L", "o", "a", "n">>
EditorStoreSamples ==
  << NoItem,
     JsonText(JArray(<< JObject([name |-> JString(GOLDNAME)]),
                        JObject([name |-> JString(SILVERNAME)]) >>)),
     JsonText(JArray(<< LoanType(GOLD, GOLDNAME, Lit(725, -2), DInt(48)) >>)),
     JsonText(JArray(<< LoanType(GOLD, GOLDNAME, Lit(725, -2), DInt(48)),
                        LoanType(GOLD, SILVERNAME, DInt(9), DInt(36)) >>)),
     JsonText(JArray(<< JObject([id |-> JString(CAR), name |-> JString(GOLDNAME),
                                 tenureMonths |-> JNumber(DInt(72))]),
                        LoanType(HOME, SILVERNAME, DInt(9), DInt(36)) >>)),
     Text(<<"{", "o", "o", "p", "s">>) >>

MaxNames == 3
MaxTypedRates == 2
MaxEditorStores == 4
MaxEvents == 3

Names == First(NameSamples, MaxNames)
TypedRates == First(TypedRateSamples, MaxTypedRates)
EditorStores == First(EditorStoreSamples, MaxEditorStores)

\* Date.now() for each element of a stored array: it does not go back
LoadClocks ==
  {nows \in [1..2 -> 1..Len(ClockSamples)] : nows[1] <= nows[2]}

\* the entries whose buttons a user presses: the first of the list
Shown == {k \in 1..Len(editor.loanTypes) : k <= MaxPresets}

\* the values of the render
Seen(state) == [loanTypes |-> state.loanTypes, isLoading |-> state.isLoading]

\* the editor is shown and waits for an event
Idle ==
  /\ ~editor.isLoading
  /\ editor.effects = <<>>
  /\ editor.rendered = Seen(editor)

\* the state after an event: the handler has set state, the component has
\* rendered again, and the effect on the list is to run if the list was set
Handled(state, listSet) ==
  /\ editor' = [state EXCEPT !.rendered = Seen(state),
                             !.effects = IF listSet THEN <<"save">> ELSE <<>>,
                             !.events = @ + 1]
  /\ UNCHANGED <<taxBrackets, calls, returns, held, localStorage, hook>>

Event == Idle /\ editor.events < MaxEvents

\* the effect of the mount
LoadEffect ==
  /\ editor.effects # <<>> /\ Head(editor.effects) = "load"
  /\ \E nows \in LoadClocks :
       LET loaded == Call("loadEffect", <<localStorage, [k \in 1..2 |-> ClockSamples[nows[k]]]>>)
       IN  /\ editor' = [editor EXCEPT !.loanTypes = loaded.loanTypes,
                                       !.isLoading = FALSE,
                                       !.effects = Tail(@)]
           /\ localStorage' = loaded.item
  /\ UNCHANGED <<taxBrackets, calls, returns, held, hook>>

\* the effect on loanTypes and isLoading, with the values of its render
SaveEffect ==
  /\ editor.effects # <<>> /\ Head(editor.effects) = "save"
  /\ localStorage' = Call("saveEffect", <<localStorage, editor.rendered.loanTypes,
                                editor.rendered.isLoading>>)
  /\ editor' = [editor EXCEPT !.effects = Tail(@)]
  /\ UNCHANGED <<taxBrackets, calls, returns, held, hook>>

\* the render after the effects of the mount have set state
EditorRendered ==
  /\ editor.effects = <<>>
  /\ editor.rendered # Seen(editor)
  /\ editor' = [editor EXCEPT !.rendered = Seen(editor), !.effects = <<"save">>]
  /\ UNCHANGED <<taxBrackets, calls, returns, held, localStorage, hook>>

AddFormShown ==
  /\ Event /\ ~editor.showAddForm
  /\ Handled([editor EXCEPT !.showAddForm = TRUE], FALSE)

NewNameTyped ==
  /\ Event /\ editor.showAddForm
  /\ \E name \in Names : Handled([editor EXCEPT !.newLoanName = name], FALSE)

NewRateTyped ==
  /\ Event /\ editor.showAddForm
  /\ \E text \in TypedRates :
       Handled([editor EXCEPT !.newInterestRate = Call("TypedRate", <<text>>)], FALSE)

NewTenureYearsChanged ==
  /\ Event /\ editor.showAddForm
  /\ \E years \in Years : Handled(Call("handleNewTenureYearsChange", <<editor, years>>), FALSE)

NewTenureMonthsChanged ==
  /\ Event /\ editor.showAddForm
  /\ \E months \in Months : Handled(Call("handleNewTenureMonthsChange", <<editor, months>>), FALSE)

LoanAdded ==
  /\ Event /\ editor.showAddForm
  /\ \E k \in 1..Len(ClockSamples) :
       LET state == Call("handleAddLoan", <<editor, ClockSamples[k]>>)
       IN  Handled(state, state.error = "")

AddCancelled ==
  /\ Event /\ editor.showAddForm
  /\ Handled(Call("handleCancelAdd", <<editor>>), FALSE)

\* the entry k is shown with its buttons, not with the fields of an edit
WithButtons(k) ==
  IF editor.editingLoan = JNull THEN TRUE
  ELSE editor.editingLoan.id # Get(editor.loanTypes[k], "id")

EditStarted ==
  /\ Event
  /\ \E k \in Shown :
       /\ WithButtons(k)
       /\ Handled(Call("handleStartEdit", <<editor, editor.loanTypes[k]>>), FALSE)

EditNameTyped ==
  /\ Event /\ editor.editingLoan # JNull
  /\ \E name \in Names : Handled([editor EXCEPT !.editingLoan.name = name], FALSE)

EditRateTyped ==
  /\ Event /\ editor.editingLoan # JNull
  /\ \E text \in TypedRates :
       Handled([editor EXCEPT !.editingLoan.interestRate = Call("TypedRate", <<text>>)], FALSE)

EditTenureYearsChanged ==
  /\ Event /\ editor.editingLoan # JNull
  /\ \E years \in Years : Handled(Call("handleEditTenureYearsChange", <<editor, years>>), FALSE)

EditTenureMonthsChanged ==
  /\ Event /\ editor.editingLoan # JNull
  /\ \E months \in Months : Handled(Call("handleEditTenureMonthsChange", <<editor, months>>), FALSE)

EditSaved ==
  /\ Event /\ editor.editingLoan # JNull
  /\ LET state == Call("handleSaveEdit", <<editor>>)
     IN  Handled(state, state.error = "")

EditCancelled ==
  /\ Event /\ editor.editingLoan # JNull
  /\ Handled(Call("handleCancelEdit", <<editor>>), FALSE)

\* the button is disabled where one entry is left (line 696); the request
\* is taken all the same, for the guard of the handler
LoanDeleted ==
  /\ Event
  /\ \E k \in Shown, confirmed \in BOOLEAN :
       /\ WithButtons(k)
       /\ Handled(Call("handleDeleteLoan", <<editor, Get(editor.loanTypes[k], "id"), confirmed>>),
                  Len(editor.loanTypes) > 1 /\ confirmed)

EditorInit ==
  /\ taxBrackets = InitialTaxBrackets
  /\ calls = <<>>
  /\ returns = <<>>
  /\ held = <<>>
  /\ localStorage \in EditorStores
  /\ hook = InitialHook
  /\ editor = InitialEditor

EditorNext ==
  \/ LoadEffect
  \/ SaveEffect
  \/ EditorRendered
  \/ AddFormShown
  \/ NewNameTyped
  \/ NewRateTyped
  \/ NewTenureYearsChanged
  \/ NewTenureMonthsChanged
  \/ LoanAdded
  \/ AddCancelled
  \/ EditStarted
  \/ EditNameTyped
  \/ EditRateTyped
  \/ EditTenureYearsChanged
  \/ EditTenureMonthsChanged
  \/ EditSaved
  \/ EditCancelled
  \/ LoanDeleted

EditorSpec == EditorInit /\ [][EditorNext]_vars

\* React runs the effects of a render and renders after state was set
EditorLiveSpec ==
  /\ EditorSpec
  /\ WF_vars(LoadEffect)
  /\ WF_vars(SaveEffect)
  /\ WF_vars(EditorRendered)

Init == InitWith(TaxScripts \cup EMIScripts \cup EquityScripts \cup CalcScripts)

Next ==
  \/ CallCalculateIncomeTax
  \/ CallCalculateEMI
  \/ CallCalculateBankFinanceAmount
  \/ CallCalculateEquityAmount
  \/ CallPerformCalculations
  \/ CallUseEMICalculator

Spec == Init /\ [][Next]_vars

(***************************************************************************)
(* Properties of the service                                               *)
(***************************************************************************)
\* the calls answered so far, and those of them that are calculations or
\* renders of the hook
Answered == 1..Len(returns)
Performed == {i \in Answered : calls[i].op = "performCalculations"}
Hooked == {i \in Answered : calls[i].op = "useEMICalculator"}

\* the number a field of the form of call i reads as
Entered(i, field) == Call("getNumericValue", <<calls[i].formData[field]>>)

\* |x - y| <= tolerance, for finite x and y
Within(x, y, tolerance) ==
  /\ IsFin(x)
  /\ Call("DecLte", <<[Call("DecMinus", <<x, y>>) EXCEPT !.s = 1], tolerance>>)

\* C1: whenever performCalculations has returned for a form whose existing
\* loans read as 0 and the afterGraceRepayment it returned is 0, the dscr it
\* returned is exactly 0: the division by the zero obligation is not made.
DscrZeroGuard ==
  \A i \in Performed :
    (DecIsZero(Entered(i, "existingLoans")) /\ DecIsZero(returns[i].afterGraceRepayment))
      => returns[i].dscr = DInt(0)

\* a calculation has returned with no loans, no repayment and an income left
DscrZeroGuardWitness ==
  \E i \in Performed :
    /\ DecIsZero(Entered(i, "existingLoans"))
    /\ DecIsZero(returns[i].afterGraceRepayment)
    /\ ~DecIsZero(returns[i].netIncome)
    /\ returns[i].dscr = DInt(0)

\* C2: calculateEMI(P, 0, n) with P >= 0 and n > 0 returns P / n: the
\* quotient of the decimals as a native number, which times n is P again up
\* to the rounding of a native number.
ZeroRateEMI ==
  \A i \in Answered :
    (/\ calls[i].op = "calculateEMI"
     /\ DecIsZero(calls[i].rate)
     /\ Call("DecGte", <<calls[i].principal, DInt(0)>>)
     /\ Call("DecGt", <<calls[i].tenure, DInt(0)>>))
      => /\ returns[i] = Call("ToNumber", <<Call("DecDiv", <<calls[i].principal,
                                                            calls[i].tenure>>)>>)
         /\ Within(Call("DecMul", <<returns[i], calls[i].tenure>>), calls[i].principal,
                   Call("DecMul", <<calls[i].principal, Lit(1, -15)>>))

\* 1200000 over 240 months at no interest has been answered with 5000
ZeroRateEMIWitness ==
  \E i \in Answered :
    /\ calls[i] = EMICall(DInt(1200000), DInt(0), DInt(240))
    /\ returns[i] = DInt(5000)

\* C3: of two annual incomes a and b with 0 <= a < b, the tax returned for a
\* is at most the tax returned for b.
TaxMonotone ==
  \A i, j \in Answered :
    (/\ calls[i].op = "calculateIncomeTax"
     /\ calls[j].op = "calculateIncomeTax"
     /\ Call("DecLte", <<DInt(0), calls[i].annualIncome>>)
     /\ Call("DecLt", <<calls[i].annualIncome, calls[j].annualIncome>>))
      => Call("DecLte", <<returns[i], returns[j]>>)

\* the taxes of two incomes in different brackets have been returned, the
\* higher income with the higher tax
TaxMonotoneWitness ==
  \E i, j \in Answered :
    /\ calls[i] = IncomeTaxCall(DInt(1200000))
    /\ calls[j] = IncomeTaxCall(DInt(1200001))
    /\ Call("DecLt", <<returns[i], returns[j]>>)

\* C4: the tax returned for 720000 is 0 and the tax returned for 1200000 is
\* 2200 a month, (480000 x 5.5%) / 12: an income on the lower bound of a
\* bracket adds nothing for that bracket.
TaxBoundary ==
  \A i \in Answered :
    calls[i].op = "calculateIncomeTax" =>
      /\ calls[i].annualIncome = DInt(720000) => returns[i] = DInt(0)
      /\ calls[i].annualIncome = DInt(1200000) => returns[i] = DInt(2200)

\* both boundary incomes have been answered
TaxBoundaryWitness ==
  /\ Len(returns) = 2
  /\ calls = <<IncomeTaxCall(DInt(720000)), IncomeTaxCall(DInt(1200000))>>

\* C5: a calculation during grace (isAfterGrace false) returns 0 as
\* totalProjectIncome whatever project income was entered; a calculation
\* after grace returns the project income adjusted by the scenario.
GraceGating ==
  \A i \in Performed :
    returns[i].totalProjectIncome =
      IF calls[i].isAfterGrace
      THEN Call("applyScenarioMultipliers",
                <<Call("convertToNumericFormData", <<calls[i].formData>>),
                  calls[i].scenario>>).adjustedProjectIncome
      ELSE DInt(0)

\* of a form with a project income of 40000, the calculation during grace
\* has returned 0 and the one after grace with reduced income 32000
GraceGatingWitness ==
  \E i, j \in Performed :
    /\ calls[i].formData = calls[j].formData
    /\ Entered(i, "projectIncome") = DInt(40000)
    /\ ~calls[i].isAfterGrace /\ returns[i].totalProjectIncome = DInt(0)
    /\ calls[j].isAfterGrace /\ calls[j].scenario = "income_reduce"
    /\ returns[j].totalProjectIncome = DInt(32000)

\* C6: calculations of one form in one grace state return the same
\* bankFinanceAmount, afterGraceRepayment and gracePeriodRepayment under
\* both scenarios, and the hook derives the same bankFinanceAmount and
\* equityAmount from one form whichever scenario is chosen.
ScenarioInvariance ==
  /\ \A i, j \in Performed :
       (calls[i].formData = calls[j].formData /\ calls[i].isAfterGrace = calls[j].isAfterGrace)
         => /\ returns[i].bankFinanceAmount = returns[j].bankFinanceAmount
            /\ returns[i].afterGraceRepayment = returns[j].afterGraceRepayment
            /\ returns[i].gracePeriodRepayment = returns[j].gracePeriodRepayment
  /\ \A i, j \in Hooked :
       calls[i].formData = calls[j].formData
         => /\ returns[i].bankFinanceAmount = returns[j].bankFinanceAmount
            /\ returns[i].equityAmount = returns[j].equityAmount

\* one form has been calculated under both scenarios with different incomes
\* and a bank finance above 0, and rendered under both scenarios
ScenarioInvarianceWitness ==
  /\ \E i, j \in Performed :
       /\ calls[i].formData = calls[j].formData
       /\ calls[i].isAfterGrace = calls[j].isAfterGrace
       /\ calls[i].scenario = "normal" /\ calls[j].scenario = "income_reduce"
       /\ returns[i].totalIncome # returns[j].totalIncome
       /\ Call("DecGt", <<returns[i].bankFinanceAmount, DInt(0)>>)
  /\ \E i, j \in Hooked :
       /\ returns[i].scenario = "normal" /\ returns[j].scenario = "income_reduce"
       /\ ~DecIsZero(returns[i].equityAmount)

\* the two amounts of a project cost have been returned, the cost at least 0
\* and the equity within 0..100
Split ==
  /\ Len(returns) = 2
  /\ calls[1].op = "calculateBankFinanceAmount"
  /\ calls[2].op = "calculateEquityAmount"
  /\ calls[1].totalProjectCost = calls[2].totalProjectCost
  /\ calls[1].equityPercentage = calls[2].equityPercentage
  /\ Call("DecGte", <<calls[1].totalProjectCost, DInt(0)>>)
  /\ Call("DecGte", <<calls[1].equityPercentage, DInt(0)>>)
  /\ Call("DecLte", <<calls[1].equityPercentage, DInt(100)>>)

\* C7 as stated: the bank finance amount plus the equity amount, added as
\* native numbers, equals the cost.
EquityComplementExact ==
  Split => Call("ToNumber", <<Call("DecPlus", <<returns[1], returns[2]>>)>>)
             = calls[1].totalProjectCost

\* C7: for a cost >= 0 and an equity percentage within 0..100, the bank
\* finance amount plus the equity amount differs from the cost by at most
\* the cost times 10^-15, the rounding of the two amounts to native numbers.
EquityComplement ==
  Split => Within(Call("DecPlus", <<returns[1], returns[2]>>), calls[1].totalProjectCost,
                  Call("DecMul", <<calls[1].totalProjectCost, Lit(1, -15)>>))

\* a cost of 1800000.55 has been split at 33.333333 percent into two amounts
\* above 0 whose sum is within the tolerance and is not the cost
EquityComplementWitness ==
  /\ Split
  /\ calls[1].totalProjectCost = Lit(180000055, -2)
  /\ calls[1].equityPercentage = Lit(33333333, -6)
  /\ Call("DecGt", <<returns[1], DInt(0)>>)
  /\ Call("DecGt", <<returns[2], DInt(0)>>)
  /\ Call("DecPlus", <<returns[1], returns[2]>>) # calls[1].totalProjectCost

\* the calculation of the default form after grace in the normal scenario
DefaultCalculation(i) == calls[i] = PerformCall(DEFAULT_FORM_DATA, "normal", TRUE)

\* half a cent
HalfCent == Lit(5, -3)

\* C8 as stated: the default form after grace in the normal scenario gives a
\* bankFinanceAmount of 1620000, a totalIncome of 80000, a totalExpenditure
\* of 28000, an afterGraceRepayment of 14575.19 to the cent and the dscr
\* netIncome / afterGraceRepayment.
DefaultScenarioAsStated ==
  \A i \in Performed :
    DefaultCalculation(i) =>
      /\ returns[i].bankFinanceAmount = DInt(1620000)
      /\ returns[i].totalIncome = DInt(80000)
      /\ returns[i].totalExpenditure = DInt(28000)
      /\ Within(returns[i].afterGraceRepayment, Lit(1457519, -2), HalfCent)
      /\ returns[i].dscr = Call("ToNumber", <<Call("DecDiv", <<returns[i].netIncome,
                                                   returns[i].afterGraceRepayment>>)>>)

\* C8: the default form after grace in the normal scenario gives a
\* bankFinanceAmount of 1620000, a totalIncome of 80000, a totalExpenditure
\* of 28000, an afterGraceRepayment of 14575.56 to the cent and the dscr
\* netIncome / afterGraceRepayment.
DefaultScenario ==
  \A i \in Performed :
    DefaultCalculation(i) =>
      /\ returns[i].bankFinanceAmount = DInt(1620000)
      /\ returns[i].totalIncome = DInt(80000)
      /\ returns[i].totalExpenditure = DInt(28000)
      /\ Within(returns[i].afterGraceRepayment, Lit(1457556, -2), HalfCent)
      /\ returns[i].dscr = Call("ToNumber", <<Call("DecDiv", <<returns[i].netIncome,
                                                   returns[i].afterGraceRepayment>>)>>)

\* the default calculation has returned, with a net income of 50900
DefaultScenarioWitness ==
  \E i \in Performed :
    /\ DefaultCalculation(i)
    /\ returns[i].netIncome = DInt(50900)
    /\ returns[i].monthlyRepayment = returns[i].afterGraceRepayment

WellFormed(numericData) ==
  /\ \A field \in DOMAIN numericData : Call("DecGte", <<numericData[field], DInt(0)>>)
  /\ Call("DecLte", <<numericData.equityPercentage, DInt(100)>>)
  /\ Call("DecGte", <<numericData.repaymentPeriod, DInt(1)>>)

\* C10: a calculation of a well-formed form returns a record whose every
\* field is a finite number.
Totality ==
  \A i \in Performed :
    WellFormed(Call("convertToNumericFormData", <<calls[i].formData>>))
      => \A field \in DOMAIN returns[i] : IsFin(returns[i][field])

\* the characters numerals are written with, and the blank
NumeralCharacters == Digits \cup {".", "+", "-", "e", "E", " "}

\* a text that is empty or has a character no numeral is written with
NonNumeric(str) == str = <<>> \/ \E k \in 1..Len(str) : str[k] \notin NumeralCharacters

\* a plain decimal numeral: digits with at most one point among them, after
\* an optional minus sign
PlainNumeral(str) ==
  LET i  == IF CharAt(str, 1) = "-" THEN 2 ELSE 1
      n1 == Call("DigitRun", <<str, i>>)
      n2 == IF CharAt(str, i + n1) = "." THEN Call("DigitRun", <<str, i + n1 + 1>>) ELSE 0
  IN  /\ n1 + n2 > 0
      /\ Len(str) = i - 1 + n1 + n2 + (IF CharAt(str, i + n1) = "." THEN 1 ELSE 0)

\* the number a plain decimal numeral writes: the value of its digits left
\* of the point plus the value of those right of it
NumeralValue(str) ==
  LET i     == IF CharAt(str, 1) = "-" THEN 2 ELSE 1
      point == Minimum({k \in i..(Len(str) + 1) : CharAt(str, k) \notin Digits})
      whole == Call("NatOfDigits", <<str, i, point - 1>>)
      part  == Call("NatOfDigits", <<str, point + 1, Len(str)>>)
      value == Call("DecPlus", <<Call("DFin", <<1, whole, 0>>),
                                 Call("DFin", <<1, part, Min(point - Len(str), 0)>>)>>)
  IN  IF i = 2 THEN DecNeg(value) ELSE value

\* C12: getNumericValue never returns NaN, returns 0 for every text that is
\* empty or not numeric, and returns for a plain decimal numeral the number
\* it writes (the native number nearest to it).
ParsingBoundary ==
  \A i \in Answered :
    calls[i].op = "getNumericValue" =>
      /\ ~IsNaN(returns[i])
      /\ NonNumeric(calls[i].value) => DecIsZero(returns[i])
      /\ PlainNumeral(calls[i].value)
           => Call("DecEq", <<returns[i], Call("ToNumber", <<NumeralValue(calls[i].value)>>)>>)

\* C11: whatever a caller does to an array returned by getTaxBrackets
\* (replacing its elements, writing min, max or rate of a bracket in it),
\* calculateIncomeTax and getTaxBrackets return afterwards what they returned
\* before for the same arguments.
DefensiveCopy ==
  \A i, j \in Answered :
    (calls[i] = calls[j] /\ calls[i].op \in {"calculateIncomeTax", "getTaxBrackets"})
      => returns[i] = returns[j]

\* the loads of the presets answered so far, and the store they read: a step
\* before call i that saved a list where there is a window wrote the store,
\* otherwise the store is as it was found
Loaded == {i \in Answered : calls[i].op = "loadLoanTypes"}
ValidPreset(loan) ==
  /\ TypeOf(Get(loan, "id")) = "string" /\ Get(loan, "id").string # <<>>
  /\ TypeOf(Get(loan, "name")) = "string" /\ Get(loan, "name").string # <<>>
  /\ TypeOf(Get(loan, "interestRate")) = "number"
  /\ Call("DecGt", <<Get(loan, "interestRate").number, DInt(0)>>)
  /\ Call("DecLte", <<Get(loan, "interestRate").number, DInt(100)>>)
  /\ TypeOf(Get(loan, "tenure")) = "number"
  /\ Call("DecGt", <<Get(loan, "tenure").number, DInt(0)>>)
  /\ Call("DecLte", <<Get(loan, "tenure").number, DInt(1200)>>)

\* what the last load answered read: the store, which no step after a save
\* has changed
NoArray(item) ==
  \/ "json" \notin DOMAIN item
  \/ "items" \notin DOMAIN item.json
  \/ item.json.items = <<>>
  \/ \E k \in 1..Len(item.json.items) : item.json.items[k] = JNull

\* C14: whatever the store holds, loadLoanTypes returns a list that is not
\* empty and whose records each have a non-empty string id and name, a rate
\* above 0 and at most 100 and a tenure above 0 and at most 1200; it returns
\* the default presets where there is no window, and where the store holds
\* no item, a text that is not JSON, a value that is not an array, an empty
\* array or an array with null in it; and a list other than the defaults has
\* a record for each stored element, the stored record itself where that is
\* valid.
PresetContract ==
  \A i \in Loaded :
    /\ Len(returns[i]) > 0
    /\ \A k \in 1..Len(returns[i]) : ValidPreset(returns[i][k])
    /\ ~calls[i].window => returns[i] = DEFAULT_LOAN_TYPES
    /\ (i = Len(returns) /\ NoArray(localStorage)) => returns[i] = DEFAULT_LOAN_TYPES
    /\ (i = Len(returns) /\ returns[i] # DEFAULT_LOAN_TYPES)
         => /\ Len(returns[i]) = Len(localStorage.json.items)
            /\ \A k \in 1..Len(returns[i]) :
                 ValidPreset(localStorage.json.items[k])
                   /\ Len(Trim(Get(localStorage.json.items[k], "id").string)) > 0
                   /\ Len(Trim(Get(localStorage.json.items[k], "name").string)) > 0
                   => returns[i][k] = localStorage.json.items[k]

\* a load has answered with a list made from the store, in which a legacy
\* record got the values of the default preset of its id, another the
\* general defaults, or an element that is no record became 'Unknown Loan'
PresetContractWitness ==
  \E i \in Loaded :
    /\ i = Len(returns)
    /\ returns[i] # DEFAULT_LOAN_TYPES
    /\ \E k \in 1..Len(returns[i]) : returns[i][k] # localStorage.json.items[k]

\* C13: in every state of the mounted calculator the form with which the
\* last render asked performCalculations has no validation error; so its
\* repaymentPeriod is above 0 and its equity from 0 to 100.
ValidatedInputs ==
  \A k \in 1..Len(calls) :
    calls[k].op = "performCalculations"
      => DOMAIN Call("validationErrors", <<calls[k].formData>>) = {}

\* the same native number
SameNumber(v, w) ==
  \/ IsNaN(v) /\ IsNaN(w)
  \/ ~IsNaN(v) /\ ~IsNaN(w) /\ Call("DecEq", <<v, w>>)

\* C15: every figure a calculation returns is the figure that the same
\* steps give when each is taken in decimal arithmetic of 28 digits, half
\* up, on the decimal result of the step before, and only the figures
\* returned are converted to native numbers.
DecimalPolicy ==
  \A i \in Performed :
    LET inDecimal == Call("calculateInDecimal",
                       <<Call("convertToNumericFormData", <<calls[i].formData>>),
                         calls[i].scenario, calls[i].isAfterGrace>>)
    IN  \A figure \in DOMAIN returns[i] : SameNumber(returns[i][figure], inDecimal[figure])

\* the sum, over the brackets from the i-th on whose lower bound is below
\* the income, of min(income - min, max - min) x rate / 100, where the max
\* of the top bracket is infinite
RECURSIVE BracketSum(_, _, _)
BracketSum(brackets, i, income) ==
  IF i > Len(brackets) THEN DInt(0)
  ELSE LET bracket == brackets[i]
           taxable == Call("DecMin", <<Call("DecMinus", <<income, bracket.min>>),
                                       Call("DecMinus", <<bracket.max, bracket.min>>)>>)
           part    == IF Call("DecGt", <<income, bracket.min>>)
                      THEN Call("DecDiv", <<Call("DecMul", <<taxable, bracket.rate>>), DInt(100)>>)
                      ELSE DInt(0)
       IN  Call("DecPlus", <<part, BracketSum(brackets, i + 1, income)>>)

\* C16: for an annual income of 0 or more calculateIncomeTax returns one
\* twelfth of the sum over the brackets, the top bracket without an upper
\* bound: all income above 2400000 is taxed at 15%.
ProgressiveTax ==
  \A i \in Answered :
    (calls[i].op = "calculateIncomeTax" /\ Call("DecGte", <<calls[i].annualIncome, DInt(0)>>))
      => SameNumber(returns[i],
                    Call("ToNumber",
                      <<Call("DecDiv", <<BracketSum(taxBrackets, 1, calls[i].annualIncome),
                                         DInt(12)>>)>>))

\* the multiplier of the scenario of call i, and a field of its form after
\* the multiplier
Multiplier(i) == IF calls[i].scenario = "income_reduce" THEN Lit(8, -1) ELSE DInt(1)
Adjusted(i, field) == Call("ToNumber", <<Call("DecMul", <<Entered(i, field), Multiplier(i)>>)>>)

\* C17: in both grace states afterGraceRepayment is the EMI of the bank
\* finance amount at the rate over the period of the form, and where
\* existingLoans + afterGraceRepayment is not zero, dscr is netIncome divided
\* by that sum; the repayment of the grace period is not in it.
DscrObligation ==
  \A i \in Performed :
    LET obligation == Call("DecPlus", <<Entered(i, "existingLoans"),
                                        returns[i].afterGraceRepayment>>)
    IN  /\ returns[i].afterGraceRepayment
             = Call("calculateEMI", <<returns[i].bankFinanceAmount, Entered(i, "rate"),
                                      Entered(i, "repaymentPeriod")>>)
        /\ ~DecIsZero(obligation)
             => SameNumber(returns[i].dscr,
                           Call("ToNumber", <<Call("DecDiv", <<returns[i].netIncome,
                                                               obligation>>)>>))

\* a calculation during grace, with existing loans, whose monthly repayment
\* is the payment of the grace period and not the EMI, has returned a dscr
\* that is not 0
DscrObligationWitness ==
  \E i \in Performed :
    /\ ~calls[i].isAfterGrace
    /\ Call("DecGt", <<Entered(i, "existingLoans"), DInt(0)>>)
    /\ returns[i].monthlyRepayment = returns[i].gracePeriodRepayment
    /\ returns[i].monthlyRepayment # returns[i].afterGraceRepayment
    /\ IsFin(returns[i].dscr) /\ ~DecIsZero(returns[i].dscr)

\* C18: monthlyRepayment is afterGraceRepayment after grace and
\* gracePeriodRepayment during grace, and two calculations of the same form
\* under the same scenario return the same afterGraceRepayment and the same
\* gracePeriodRepayment whatever their grace states.
RepaymentSelection ==
  /\ \A i \in Performed :
       returns[i].monthlyRepayment = IF calls[i].isAfterGrace
                                     THEN returns[i].afterGraceRepayment
                                     ELSE returns[i].gracePeriodRepayment
  /\ \A i, j \in Performed :
       (calls[i].formData = calls[j].formData /\ calls[i].scenario = calls[j].scenario)
         => /\ returns[i].afterGraceRepayment = returns[j].afterGraceRepayment
            /\ returns[i].gracePeriodRepayment = returns[j].gracePeriodRepayment

\* the same form under the same scenario has been calculated in both grace
\* states, and the monthly repayments differ
RepaymentSelectionWitness ==
  \E i, j \in Performed :
    /\ calls[i].formData = calls[j].formData
    /\ calls[i].scenario = calls[j].scenario
    /\ calls[i].isAfterGrace /\ ~calls[j].isAfterGrace
    /\ IsFin(returns[i].monthlyRepayment) /\ IsFin(returns[j].monthlyRepayment)
    /\ ~Call("DecEq", <<returns[i].monthlyRepayment, returns[j].monthlyRepayment>>)

\* C19: totalIncome is the sum of salary, rent and other income, each after
\* the multiplier of the scenario, without the project income; and
\* totalExpenditure is 0.35 x totalIncome where totalIncome is above 25000
\* and 0.40 x totalIncome where it is 25000 or less.
ExpenditureThreshold ==
  \A i \in Performed :
    LET sum  == Call("DecPlus", <<Call("DecPlus", <<Adjusted(i, "salary"), Adjusted(i, "rent")>>),
                                  Adjusted(i, "other")>>)
        rate == IF Call("DecGt", <<returns[i].totalIncome, DInt(25000)>>)
                THEN Lit(35, -2) ELSE Lit(4, -1)
    IN  /\ SameNumber(returns[i].totalIncome, Call("ToNumber", <<sum>>))
        /\ SameNumber(returns[i].totalExpenditure,
                      Call("ToNumber", <<Call("DecMul", <<returns[i].totalIncome, rate>>)>>))

\* a form with rent, other income and project income, whose income is
\* above 25000 as entered and exactly 25000 under the reduced scenario, has
\* been calculated after grace under both scenarios: 35% of 31250 and 40%
\* of 25000
ExpenditureThresholdWitness ==
  \E i, j \in Performed :
    /\ calls[i].formData = calls[j].formData
    /\ Call("DecGt", <<Entered(i, "rent"), DInt(0)>>)
    /\ Call("DecGt", <<Entered(i, "other"), DInt(0)>>)
    /\ Call("DecGt", <<Entered(i, "projectIncome"), DInt(0)>>)
    /\ calls[i].isAfterGrace /\ calls[j].isAfterGrace
    /\ calls[i].scenario = "normal" /\ calls[j].scenario = "income_reduce"
    /\ returns[i].totalIncome = DInt(31250) /\ returns[i].totalExpenditure = Lit(109375, -1)
    /\ returns[j].totalIncome = DInt(25000) /\ returns[j].totalExpenditure = DInt(10000)

ProjectExpenditure ==
  \A i \in Performed :
    LET base   == Call("DecPlus", <<returns[i].maintenanceCost, returns[i].incomeTax>>)
        buffer == Call("DecMul", <<returns[i].totalIncome, Lit(2, -1)>>)
    IN  SameNumber(returns[i].totalProjectExpenditure,
                   Call("ToNumber", <<IF calls[i].scenario = "income_reduce"
                                      THEN Call("DecPlus", <<base, buffer>>)
                                      ELSE base>>))

\* a form with a maintenance and a tax has been calculated after grace under
\* both scenarios; under 'income_reduce' the expenditure is above the
\* maintenance and the tax by a fifth of the reduced income, which is below
\* the income of 'normal'
ProjectExpenditureWitness ==
  \E i, j \in Performed :
    /\ calls[i].formData = calls[j].formData
    /\ calls[i].isAfterGrace /\ calls[j].isAfterGrace
    /\ calls[i].scenario = "normal" /\ calls[j].scenario = "income_reduce"
    /\ Call("DecGt", <<returns[i].maintenanceCost, DInt(0)>>)
    /\ Call("DecGt", <<returns[i].incomeTax, DInt(0)>>)
    /\ Call("DecGt", <<returns[j].incomeTax, DInt(0)>>)
    /\ Call("DecGt", <<returns[i].totalIncome, returns[j].totalIncome>>)
    /\ Call("DecEq", <<returns[i].totalProjectExpenditure,
                       Call("DecPlus", <<returns[i].maintenanceCost, returns[i].incomeTax>>)>>)
    /\ Call("DecGt", <<returns[j].totalProjectExpenditure,
                       Call("DecPlus", <<returns[j].maintenanceCost, returns[j].incomeTax>>)>>)

NetIncomeIdentity ==
  \A i \in Performed :
    SameNumber(returns[i].netIncome,
               Call("ToNumber", <<Call("DecMinus", <<Call("DecPlus", <<Call("DecMinus",
                 <<returns[i].totalIncome, returns[i].totalExpenditure>>),
                 returns[i].totalProjectIncome>>),
                 returns[i].totalProjectExpenditure>>)>>))

\* a calculation after grace under 'income_reduce' has returned a project
\* income, a project expenditure and a net income that is not the income
\* less the expenditure
NetIncomeIdentityWitness ==
  \E i \in Performed :
    /\ calls[i].isAfterGrace /\ calls[i].scenario = "income_reduce"
    /\ Call("DecGt", <<returns[i].totalProjectIncome, DInt(0)>>)
    /\ Call("DecGt", <<returns[i].totalProjectExpenditure, DInt(0)>>)
    /\ IsFin(returns[i].netIncome) /\ ~DecIsZero(returns[i].netIncome)
    /\ ~Call("DecEq", <<returns[i].netIncome,
                        Call("DecMinus", <<returns[i].totalIncome,
                                           returns[i].totalExpenditure>>)>>)

\* the calls of applyScenarioMultipliers answered so far
Multiplied == {i \in Answered : calls[i].op = "applyScenarioMultipliers"}

\* C24: applyScenarioMultipliers returns the salary, the rent, the other
\* income and the project income of the form, each times 0.8 under
\* 'income_reduce' and times 1 under 'normal', and nothing else; the
\* calculation takes the other fields as entered under both scenarios: the
\* bank finance amount from the project cost and the equity, the repayments
\* from the rate and the repayment period, the obligation from the existing
\* loans.
ScenarioMultiplier ==
  /\ \A i \in Multiplied :
       LET m == IF calls[i].scenario = "income_reduce" THEN Lit(8, -1) ELSE DInt(1)
           Times(field) == Call("ToNumber", <<Call("DecMul", <<calls[i].formData[field], m>>)>>)
       IN  /\ DOMAIN returns[i]
                = {"adjustedSalary", "adjustedRent", "adjustedOther", "adjustedProjectIncome"}
           /\ returns[i].adjustedSalary = Times("salary")
           /\ returns[i].adjustedRent = Times("rent")
           /\ returns[i].adjustedOther = Times("other")
           /\ returns[i].adjustedProjectIncome = Times("projectIncome")
  /\ \A i \in Performed :
       LET obligation == Call("DecPlus", <<Entered(i, "existingLoans"),
                                           returns[i].afterGraceRepayment>>)
       IN  /\ returns[i].bankFinanceAmount
                = Call("calculateBankFinanceAmount", <<Entered(i, "totalProjectCost"),
                                                       Entered(i, "equityPercentage")>>)
           /\ returns[i].afterGraceRepayment
                = Call("calculateEMI", <<returns[i].bankFinanceAmount, Entered(i, "rate"),
                                         Entered(i, "repaymentPeriod")>>)
           /\ returns[i].gracePeriodRepayment
                = Call("calculateGracePeriodPayment", <<returns[i].bankFinanceAmount,
                                                        Entered(i, "rate")>>)
           /\ ~DecIsZero(obligation)
                => SameNumber(returns[i].dscr,
                              Call("ToNumber", <<Call("DecDiv", <<returns[i].netIncome,
                                                                  obligation>>)>>))
           /\ \A k \in Multiplied :
                (/\ calls[k].formData = Call("convertToNumericFormData", <<calls[i].formData>>)
                 /\ calls[k].scenario = calls[i].scenario)
                  => SameNumber(returns[i].totalIncome,
                                Call("ToNumber", <<Call("DecPlus", <<Call("DecPlus",
                                  <<returns[k].adjustedSalary, returns[k].adjustedRent>>),
                                  returns[k].adjustedOther>>)>>))

\* for one form with a salary, a rent, another income and a project income
\* the multipliers of both scenarios have been returned: the four figures as
\* entered under 'normal', each lower under 'income_reduce'; and the form has
\* been calculated under both scenarios with the same bank finance amount,
\* above 0, and the same repayment
ScenarioMultiplierWitness ==
  \E i, j \in Multiplied :
    /\ calls[i].formData = calls[j].formData
    /\ calls[i].scenario = "normal" /\ calls[j].scenario = "income_reduce"
    /\ \A field \in {"salary", "rent", "other", "projectIncome"} :
         Call("DecGt", <<calls[i].formData[field], DInt(0)>>)
    /\ returns[i].adjustedSalary = calls[i].formData.salary
    /\ returns[i].adjustedProjectIncome = calls[i].formData.projectIncome
    /\ Call("DecLt", <<returns[j].adjustedSalary, returns[i].adjustedSalary>>)
    /\ Call("DecLt", <<returns[j].adjustedRent, returns[i].adjustedRent>>)
    /\ Call("DecLt", <<returns[j].adjustedOther, returns[i].adjustedOther>>)
    /\ Call("DecLt", <<returns[j].adjustedProjectIncome, returns[i].adjustedProjectIncome>>)
    /\ \E k, l \in Performed :
         /\ Call("convertToNumericFormData", <<calls[k].formData>>) = calls[i].formData
         /\ calls[l].formData = calls[k].formData
         /\ calls[k].scenario = "normal" /\ calls[l].scenario = "income_reduce"
         /\ Call("DecGt", <<returns[k].bankFinanceAmount, DInt(0)>>)
         /\ returns[k].bankFinanceAmount = returns[l].bankFinanceAmount
         /\ returns[k].afterGraceRepayment = returns[l].afterGraceRepayment
         /\ Call("DecLt", <<returns[l].totalIncome, returns[k].totalIncome>>)

\* two calculations of forms that differ in the project income at most
OnlyProjectIncomeDiffers(i, j) ==
  calls[i].formData = [calls[j].formData EXCEPT !.projectIncome = calls[i].formData.projectIncome]

Validated == {i \in Answered : calls[i].op = "validation"}

\* C25: isFormValid is true exactly when validationErrors is empty, and
\* exactly when, each read by getNumericValue, the salary and the project
\* cost are above 0, the rate is above 0 and at most 50, the repayment
\* period above 0 and at most 600, the equity from 0 to 100 and the grace
\* period not above the repayment period.
FormValidity ==
  \A i \in Validated :
    /\ returns[i].isFormValid <=> (DOMAIN returns[i].validationErrors = {})
    /\ returns[i].isFormValid
         <=> /\ Call("DecGt", <<Entered(i, "salary"), DInt(0)>>)
             /\ Call("DecGt", <<Entered(i, "totalProjectCost"), DInt(0)>>)
             /\ Call("DecGt", <<Entered(i, "rate"), DInt(0)>>)
             /\ Call("DecLte", <<Entered(i, "rate"), DInt(50)>>)
             /\ Call("DecGt", <<Entered(i, "repaymentPeriod"), DInt(0)>>)
             /\ Call("DecLte", <<Entered(i, "repaymentPeriod"), DInt(600)>>)
             /\ Call("DecGte", <<Entered(i, "equityPercentage"), DInt(0)>>)
             /\ Call("DecLte", <<Entered(i, "equityPercentage"), DInt(100)>>)
             /\ Call("DecLte", <<Entered(i, "gracePeriod"), Entered(i, "repaymentPeriod")>>)

\* a form at the bounds (repayment period 600 with equity 100) has been
\* found valid
FormValidityWitness ==
  \E i \in Validated :
    /\ returns[i].isFormValid
    /\ Entered(i, "repaymentPeriod") = DInt(600)
    /\ Entered(i, "equityPercentage") = DInt(100)

\* the presets of the loaded list that have the id
PresetsWithId(loanTypeId) ==
  {k \in 1..Len(hook.loanTypes) : Get(hook.loanTypes[k], "id") = JString(loanTypeId)}

\* C26: the selection of a preset whose id is in the loaded list sets the
\* rate of the form to its interestRate and the repayment period to its
\* tenure, both, and leaves the other fields of the form as they are; the
\* selection of an id that the list does not have changes no field of the
\* form.
PresetSelection ==
  [][LoanTypeChanged
       => \E loanTypeId \in PresetIds :
            /\ hook'.selectedLoanType = loanTypeId
            /\ \A field \in DOMAIN hook.formData \ {"rate", "repaymentPeriod"} :
                 hook'.formData[field] = hook.formData[field]
            /\ IF PresetsWithId(loanTypeId) = {}
               THEN hook'.formData = hook.formData
               ELSE LET selectedLoan == hook.loanTypes[Minimum(PresetsWithId(loanTypeId))]
                    IN  /\ Call("getNumericValue", <<hook'.formData.rate>>)
                             = Get(selectedLoan, "interestRate").number
                        /\ Call("getNumericValue", <<hook'.formData.repaymentPeriod>>)
                             = Get(selectedLoan, "tenure").number]_vars

\* after the salary has been cleared, the preset of the car loan has been
\* selected (rate 9.5 over 60 months) and then an id that the list does not
\* have: the form still has the rate and the period of the car loan and the
\* cleared salary
PresetSelectionWitness ==
  /\ hook.mounted
  /\ hook.selectedLoanType = GOLD
  /\ PresetsWithId(GOLD) = {}
  /\ PresetsWithId(CAR) # {}
  /\ hook.formData.rate = <<"9", ".", "5">>
  /\ hook.formData.repaymentPeriod = <<"6", "0">>
  /\ hook.formData.salary = <<>>

\* the names of a list are pairwise distinct, the case of letters ignored
DistinctNames(loanTypes) ==
  \A i, j \in 1..Len(loanTypes) :
    i # j => toLowerCase(Get(loanTypes[i], "name").string)
               # toLowerCase(Get(loanTypes[j], "name").string)

\* an entry as the editor accepts it
InRange(loan) ==
  /\ Len(Trim(Get(loan, "name").string)) >= 2
  /\ Get(loan, "name").string = Trim(Get(loan, "name").string)
  /\ Call("DecGt", <<Get(loan, "interestRate").number, DInt(0)>>)
  /\ Call("DecLte", <<Get(loan, "interestRate").number, DInt(100)>>)
  /\ Call("DecGt", <<Get(loan, "tenure").number, DInt(0)>>)

\* the store holds the JSON text of the list of the editor
Agree == localStorage = JsonStringify(JArray(editor.loanTypes))

\* C28: once the list is loaded it has at least one entry, whatever has been
\* added, saved, cancelled and deleted; and a delete asked for while one
\* entry is left removes nothing and sets the error 'Cannot delete the last
\* loan type'.
NeverEmpty ==
  /\ [](~editor.isLoading => Len(editor.loanTypes) >= 1)
  /\ [][(Len(editor.loanTypes) = 1 /\ LoanDeleted)
          => /\ editor'.loanTypes = editor.loanTypes
             /\ editor'.error = "Cannot delete the last loan type"]_vars

\* C29: an add, a save of an edit or a delete on a list with pairwise
\* distinct names (case ignored) leaves a list with pairwise distinct names,
\* every entry it has put into the list has a trimmed name of 2 characters
\* at least, 0 < interestRate <= 100 and tenure > 0, and where the add or the
\* save was rejected the list is as before.
UniqueNames ==
  [][(DistinctNames(editor.loanTypes) /\ (LoanAdded \/ EditSaved \/ LoanDeleted))
       => /\ DistinctNames(editor'.loanTypes)
          /\ \A k \in 1..Len(editor'.loanTypes) :
               (\A i \in 1..Len(editor.loanTypes) :
                  editor.loanTypes[i] # editor'.loanTypes[k])
                 => InRange(editor'.loanTypes[k])
          /\ editor'.error # "" => editor'.loanTypes = editor.loanTypes]_vars

\* C30: while the editor is loading, the store is written by the effect of
\* the mount alone, which writes the defaults it sets; once the list is
\* loaded, the store comes to hold the list of the editor; and whenever the
\* editor waits for an event, the store holds its list.
PersistenceFollowsList ==
  /\ [][(editor.rendered.isLoading /\ localStorage' # localStorage)
          => /\ editor.isLoading
             /\ editor'.loanTypes = defaultLoanTypes
             /\ localStorage' = JsonStringify(JArray(defaultLoanTypes))]_vars
  /\ ~editor.isLoading ~> Agree
  /\ [](Idle => Agree)
====
